---------------------------- MODULE Spec2Model ----------------------------
(***************************************************************************)
(* Verification model of the chat-analyst ingestion pipeline.              *)
(*                                                                         *)
(*   SpecLP   - LongPollCollector (services/LongPollCollector): the        *)
(*              connection state machine, its timers and its in-flight     *)
(*              requests.                                                  *)
(*   SpecChat - ChatFileManager (storage/ChatFileManager): saveMessage as  *)
(*              the sequence of its await points, the chat cache and the   *)
(*              chat file.                                                 *)
(*   SpecSession - the same LongPollCollector with the data of its         *)
(*              sessions (key, ts, pts) and the server's event counter.    *)
(*   SpecUser - UserManager (services/UserManager): getUserInfo and        *)
(*              batchGetUsers with the pending-request table.              *)
(*   SpecError - ErrorHandler (services/ErrorHandler): handleError, the    *)
(*              retries and the buffer of operations.                      *)
(*   SpecBuffer - the buffer of the ErrorHandler with its clock, its flush  *)
(*              timer and destroy(); SpecBufferLive adds fairness.         *)
(*   SpecEvent - EventProcessor (services/EventProcessor): processEvent    *)
(*              and its handlers, with the ErrorHandler it calls.          *)
(*   SpecBatch - the LongPollCollector handing the events of a poll        *)
(*              response to its callbacks.                                 *)
(*   SpecFlags - utils/flagsParser: a TMessageFlags value encoded and      *)
(*              parsed back.                                               *)
(*   SpecParser - a new-message event parsed, and handled up to the call   *)
(*              of saveMessage.                                            *)
(*   SpecBackoff - the backoff delays of scheduleReconnection and of       *)
(*              retryWithBackoff.                                          *)
(*   SpecBackup - the backup files of a chat file and of the user cache:   *)
(*              FileStorage.createBackup, FileIntegrityChecker and         *)
(*              UserCacheManager.                                          *)
(*                                                                         *)
(* An async method is modelled as one step per stretch of code between two *)
(* awaits that wait for I/O: JavaScript runs such a stretch without        *)
(* interleaving.  A method of a class is an operator from the object's     *)
(* state to its next state, so that a call inside a method is a use of the *)
(* callee's operator.                                                      *)
(***************************************************************************)
EXTENDS Integers, Sequences, FiniteSets, TLC

VARIABLES
    lp,     \* the LongPollCollector object, its timers and its requests in flight
    ls,     \* a LongPollCollector with its session data and the server it talks to
    cm,     \* the ChatFileManager object, the chat files and the saveMessage calls in flight
    um,     \* the UserManager object and the getUserInfo / batchGetUsers calls in flight
    eh,     \* the ErrorHandler object, its buffer and the handleError calls in flight
    ep,     \* the EventProcessor dispatching one event to its handlers
    bk,     \* a chat file and the user cache file with their backup files
    bd,     \* the events of one poll response going through the callbacks
    fn      \* a call of a function of the parser or of utils: arguments and result

vars == <<lp, ls, cm, um, eh, ep, bk, bd, fn>>

-----------------------------------------------------------------------------
(* Bounds and configuration *)

maxReconnectAttempts == 3   \* config.maxReconnectAttempts, as in Scenario C
MaxPolls == 2               \* pollForEvents calls alive at once
MaxBatch == 2               \* events in one poll response
MaxOrphans == 1             \* leaked timeouts of one kind pending at once
MaxAcquiring == 2           \* session acquisitions in flight at once
MaxSessions == 2            \* sessions the server hands out in one run
MaxServerTs == 2            \* the server's event counter runs over 1..MaxServerTs
MaxSessionAcquiring == 1    \* as MaxAcquiring, for the collector with its session data

MaxMsgId == 2               \* message ids 1..MaxMsgId
MaxSlots == 2               \* saveMessage calls in flight at once
MaxCalls == 2               \* saveMessage calls in one run
maxMemoryCacheSize == 1     \* config.maxMemoryCacheSize: the cache is to hold one chat
maxRetries == 3             \* FileStorage config.maxRetries

MaxUserId == 2              \* user ids 1..MaxUserId
MaxCallers == 2             \* getUserInfo / batchGetUsers calls in flight at once
MaxLookups == 3             \* vkApi.getUsers requests in one run
batchSize == 1              \* config.batchSize

bufferSize == 2             \* ErrorHandler config.bufferSize
errorMaxRetries == 2        \* ErrorHandler config.maxRetries
MaxBuffered == 3            \* bufferOperation calls that add an operation in one run

NumHandlers == 2            \* handlers registered for the type of the event
MaxDepth == 2               \* processEvent calls retrying processEvent, nested
NumCallbacks == 2           \* callbacks registered with onEvent
MaxClock == 2               \* readings of the clock that stamps the backups
MaxBackupFiles == 3         \* backup files of one chat file on the disk
backupRetentionCount == 2   \* FileIntegrityChecker config.backupRetentionCount
backupRetention == 2        \* UserCacheManager config.backupRetention

Min(a, b) == IF a < b THEN a ELSE b

RECURSIVE SumTo(_, _)
SumTo(f, n) == IF n = 0 THEN 0 ELSE f[n] + SumTo(f, n - 1)

-----------------------------------------------------------------------------
(* LongPollCollector: state *)

\* Who awaits a session acquisition: start(), a reconnect() whose rejection is
\* caught and logged (reconnect timer, health check), or a reconnect() called
\* through the public interface.
Origins == {"start", "background", "owner"}

\* Fields of the collector.  pollTimer and reconnectTimer are the handles:
\* "null", "pending" (the timeout the handle names has not fired) or "fired".
\* pollOrphans and reconnectOrphans count pending timeouts whose handle was
\* overwritten by a later setTimeout.  acquiring[o] counts the in-flight
\* getLongPollServerForChat calls, pollsInFlight the in-flight poll requests,
\* handling[j] the pollForEvents calls inside handleLongPollResponse with j
\* callbacks still to complete.  lastEventTime is stats.lastEventTime seen
\* from the clock of a health check: "none" (null), "fresh", or "stale" (more
\* than three health-check intervals old); quietSinceStart says that
\* lastEventTime is null and more than three health-check intervals have
\* passed since start().  The last six fields observe the run;
\* lastStep tells whether the last step issued a poll request ("poll"), handed
\* an event to the event callback ("deliver"), began a session acquisition
\* in reconnect() ("reconnect") or was a health check that began none
\* ("healthcheck").
LPInitState ==
    [ isRunning           |-> FALSE,
      isConnecting        |-> FALSE,
      connected           |-> FALSE,
      serverConfig        |-> FALSE,
      reconnectAttempts   |-> 0,
      lastEventTime       |-> "none",
      quietSinceStart     |-> FALSE,
      pollTimer           |-> "null",
      pollOrphans         |-> 0,
      healthCheckTimer    |-> FALSE,
      reconnectTimer      |-> "null",
      reconnectOrphans    |-> 0,
      acquiring           |-> [o \in Origins |-> 0],
      pollsInFlight       |-> 0,
      handling            |-> [j \in 1..MaxBatch |-> 0],
      pollFailed          |-> FALSE,
      failedReconnects    |-> 0,
      fatalStopped        |-> FALSE,
      ownerNotified       |-> FALSE,
      stopReturned        |-> FALSE,
      lastStep            |-> "init" ]

Handlings(s) == SumTo(s.handling, MaxBatch)

AcquiringTotal(s) ==
    s.acquiring["start"] + s.acquiring["background"] + s.acquiring["owner"]

LPBounded(s) ==
    /\ s.pollsInFlight + Handlings(s) <= MaxPolls
    /\ s.pollOrphans <= MaxOrphans
    /\ s.reconnectOrphans <= MaxOrphans
    /\ AcquiringTotal(s) <= MaxAcquiring

-----------------------------------------------------------------------------
(* LongPollCollector: methods *)

\* stop(): returns at once when not running; otherwise clears the flags and
\* the three timer handles.  Nothing is done about requests in flight.
stop(s) ==
    IF ~s.isRunning THEN s
    ELSE [s EXCEPT !.isRunning = FALSE,
                   !.connected = FALSE,
                   !.pollTimer = "null",
                   !.healthCheckTimer = FALSE,
                   !.reconnectTimer = "null",
                   !.stopReturned = TRUE]

\* this.pollTimer = setTimeout(() => this.pollForEvents(), 100)
setPollTimer(s) ==
    [s EXCEPT !.pollTimer = "pending",
              !.pollOrphans = IF s.pollTimer = "pending" THEN @ + 1 ELSE @]

\* scheduleReconnection(): this.reconnectTimer = setTimeout(reconnect, delay)
scheduleReconnection(s) ==
    [s EXCEPT !.reconnectTimer = "pending",
              !.reconnectOrphans = IF s.reconnectTimer = "pending" THEN @ + 1 ELSE @]

\* pollForEvents() up to its first await: the guard, then the request.
pollForEvents(s) ==
    IF ~s.isRunning \/ ~s.connected \/ ~s.serverConfig THEN s
    ELSE [s EXCEPT !.pollsInFlight = @ + 1, !.lastStep = "poll"]

startPolling(s) ==
    IF ~s.connected \/ ~s.serverConfig THEN s ELSE pollForEvents(s)

startHealthCheck(s) == [s EXCEPT !.healthCheckTimer = TRUE]

\* connectToServer() up to the await of getLongPollServerForChat.
connectToServerBegin(s, o) ==
    [s EXCEPT !.isConnecting = TRUE, !.acquiring[o] = @ + 1]

\* connectToServer() after a valid server response.  lastPts is assigned the
\* new pts before the two are compared, so recoverMissedEvents is not entered.
connectToServerOk(s, o) ==
    [s EXCEPT !.acquiring[o] = @ - 1,
              !.serverConfig = TRUE,
              !.connected = TRUE,
              !.isConnecting = FALSE,
              !.pollFailed = FALSE,
              !.failedReconnects = 0]

\* connectToServer() after a rejected or invalid server response.
connectToServerFail(s, o) ==
    [s EXCEPT !.acquiring[o] = @ - 1,
              !.connected = FALSE,
              !.isConnecting = FALSE]

\* handleConnectionError() leaving connectionState.connected as it was.
handleConnectionError_StaysConnected(s) ==
    LET s1 == [s EXCEPT !.reconnectAttempts = @ + 1,
                        !.pollFailed = TRUE]
    IN  IF ~s1.isRunning THEN s1
        ELSE IF s1.reconnectAttempts < maxReconnectAttempts
             THEN scheduleReconnection(s1)
             ELSE stop([s1 EXCEPT !.fatalStopped = TRUE])

\* handleConnectionError(): the catch of pollForEvents.
handleConnectionError(s) ==
    LET s1 == [s EXCEPT !.connected = FALSE,
                        !.reconnectAttempts = @ + 1,
                        !.pollFailed = TRUE]
    IN  IF ~s1.isRunning THEN s1
        ELSE IF s1.reconnectAttempts < maxReconnectAttempts
             THEN scheduleReconnection(s1)
             ELSE stop([s1 EXCEPT !.fatalStopped = TRUE])

\* reconnect() up to the await inside connectToServer.
reconnectBegin(s, o) ==
    IF s.isConnecting THEN s
    ELSE connectToServerBegin([s EXCEPT !.connected = FALSE, !.lastStep = "reconnect"], o)

\* performHealthCheck(): timeSinceLastEvent is null when lastEventTime is
\* null, and the staleness test is then false; the reconnect() is not awaited.
performHealthCheck(s) ==
    IF s.lastEventTime = "stale" THEN reconnectBegin(s, "background") ELSE s

\* reconnect() after connectToServer resolved.
reconnectOk(s, o) ==
    LET s1 == [connectToServerOk(s, o) EXCEPT !.reconnectAttempts = 0]
    IN  IF s1.isRunning THEN startPolling(s1) ELSE s1

\* reconnect() after connectToServer rejected: reschedule or stop, then
\* rethrow to the caller.
reconnectFail(s, o) ==
    LET s1 == [connectToServerFail(s, o) EXCEPT
                   !.failedReconnects =
                       IF o = "background" THEN Min(@ + 1, maxReconnectAttempts + 1) ELSE @]
        s2 == IF s1.reconnectAttempts < maxReconnectAttempts /\ s1.isRunning
              THEN scheduleReconnection(s1)
              ELSE stop([s1 EXCEPT !.fatalStopped = @ \/ s1.isRunning])
    IN  [s2 EXCEPT !.ownerNotified = @ \/ (o = "owner")]

\* handleLongPollResponse() for a response with n events, up to the first
\* callback that is awaited; pollForEvents schedules the next poll when the
\* response is empty.
handleLongPollResponse(s, n) ==
    IF n = 0
    THEN IF s.isRunning THEN setPollTimer(s) ELSE s
    ELSE [s EXCEPT !.lastEventTime = "fresh",
                   !.quietSinceStart = FALSE,
                   !.handling[n] = @ + 1,
                   !.lastStep = "deliver"]

\* A callback of processEventSafely completed with j callbacks outstanding:
\* the next event is handed over, or pollForEvents schedules the next poll.
callbackDone(s, j) ==
    IF j > 1
    THEN [s EXCEPT !.handling[j] = @ - 1,
                   !.handling[j - 1] = @ + 1,
                   !.lastStep = "deliver"]
    ELSE LET s1 == [s EXCEPT !.handling[j] = @ - 1]
         IN  IF s1.isRunning THEN setPollTimer(s1) ELSE s1

-----------------------------------------------------------------------------
(* LongPollCollector: steps *)

Quiet(s) == [s EXCEPT !.lastStep = "other"]

\* The collector moves to state s, within the bounds of the model.
LPStep(s) == lp' = s /\ LPBounded(s) /\ UNCHANGED <<ls, cm, um, eh, ep, bk, bd, fn>>

\* start() up to the await of connectToServer.
Start ==
    /\ ~lp.isRunning
    /\ LPStep(connectToServerBegin(
                [Quiet(lp) EXCEPT !.isRunning = TRUE,
                                  !.quietSinceStart = FALSE,
                                  !.reconnectAttempts = 0,
                                  !.pollFailed = FALSE,
                                  !.failedReconnects = 0,
                                  !.fatalStopped = FALSE,
                                  !.ownerNotified = FALSE,
                                  !.stopReturned = FALSE], "start"))

\* start() after connectToServer resolved.
StartConnected ==
    /\ lp.acquiring["start"] > 0
    /\ LPStep(startPolling(startHealthCheck(connectToServerOk(Quiet(lp), "start"))))

\* start() after connectToServer rejected: the error goes to the caller.
StartFailed ==
    /\ lp.acquiring["start"] > 0
    /\ LPStep([connectToServerFail(Quiet(lp), "start") EXCEPT
                 !.isRunning = FALSE, !.ownerNotified = TRUE])

\* stop() called by the owner.
Stop ==
    /\ lp.isRunning
    /\ LPStep(stop(Quiet(lp)))

\* reconnect() called through the public interface.
OwnerReconnect ==
    /\ ~lp.isConnecting
    /\ LPStep(reconnectBegin(Quiet(lp), "owner"))

\* The health-check interval fires when no event has arrived for more than
\* three intervals (the other firings change nothing).
HealthCheck ==
    /\ lp.healthCheckTimer
    /\ lp.lastEventTime = "stale" \/ lp.quietSinceStart
    /\ LPStep(performHealthCheck([Quiet(lp) EXCEPT !.lastStep = "healthcheck"]))

\* The timeout this.reconnectTimer names fires.
ReconnectTimerFires ==
    /\ lp.reconnectTimer = "pending"
    /\ LPStep(reconnectBegin([Quiet(lp) EXCEPT !.reconnectTimer = "fired"], "background"))

\* A reconnect timeout whose handle was overwritten fires.
LeakedReconnectTimerFires ==
    /\ lp.reconnectOrphans > 0
    /\ LPStep(reconnectBegin([Quiet(lp) EXCEPT !.reconnectOrphans = @ - 1], "background"))

ReconnectConnected ==
    \E o \in {"background", "owner"} :
        /\ lp.acquiring[o] > 0
        /\ LPStep(reconnectOk(Quiet(lp), o))

ReconnectFailed ==
    \E o \in {"background", "owner"} :
        /\ lp.acquiring[o] > 0
        /\ LPStep(reconnectFail(Quiet(lp), o))

\* The timeout this.pollTimer names fires.
PollTimerFires ==
    /\ lp.pollTimer = "pending"
    /\ LPStep(pollForEvents([Quiet(lp) EXCEPT !.pollTimer = "fired"]))

\* A poll timeout whose handle was overwritten fires.
LeakedPollTimerFires ==
    /\ lp.pollOrphans > 0
    /\ LPStep(pollForEvents([Quiet(lp) EXCEPT !.pollOrphans = @ - 1]))

\* connectToLongPollServer resolves with n events.
PollResponse ==
    \E n \in 0..MaxBatch :
        /\ lp.pollsInFlight > 0
        /\ LPStep(handleLongPollResponse([Quiet(lp) EXCEPT !.pollsInFlight = @ - 1], n))

\* connectToLongPollServer rejects (transport error, HTTP status, `failed`).
PollError ==
    /\ lp.pollsInFlight > 0
    /\ LPStep(handleConnectionError([Quiet(lp) EXCEPT !.pollsInFlight = @ - 1]))

CallbackDone ==
    \E j \in 1..MaxBatch :
        /\ lp.handling[j] > 0
        /\ LPStep(callbackDone(Quiet(lp), j))

\* Time passes beyond three health-check intervals since the last event.
EventsGoStale ==
    /\ lp.lastEventTime = "fresh"
    /\ LPStep([Quiet(lp) EXCEPT !.lastEventTime = "stale"])

\* Time passes beyond three health-check intervals since start() while no
\* event has ever arrived.
NoEventSinceStart ==
    /\ lp.isRunning
    /\ lp.lastEventTime = "none"
    /\ ~lp.quietSinceStart
    /\ LPStep([Quiet(lp) EXCEPT !.quietSinceStart = TRUE])

LPInit == lp = LPInitState

LPNext ==
    \/ Start
    \/ StartConnected
    \/ StartFailed
    \/ Stop
    \/ OwnerReconnect
    \/ HealthCheck
    \/ ReconnectTimerFires
    \/ LeakedReconnectTimerFires
    \/ ReconnectConnected
    \/ ReconnectFailed
    \/ PollTimerFires
    \/ LeakedPollTimerFires
    \/ PollResponse
    \/ PollError
    \/ CallbackDone
    \/ EventsGoStale
    \/ NoEventSinceStart

-----------------------------------------------------------------------------
(* LongPollCollector with its session data: state *)

\* The parameters a poll request in flight was made with that matter here:
\* the key of the session, and the value the server's event counter had when
\* the request was made (the request's ts is at most that value).
PollParams == [key : 1..MaxSessions, from : 1..MaxServerTs]

Extended(a, b) ==
    [f \in DOMAIN a \cup DOMAIN b |-> IF f \in DOMAIN b THEN b[f] ELSE a[f]]

\* The fields of the collector above, and: key, ts and pts of serverConfig (0
\* while serverConfig is null), connectionState.lastPts (0 for undefined),
\* and polls, the requests in flight by their parameters.  serverTs is the
\* server's event counter and sessions the number of sessions it has handed
\* out; a session's key is its number.  failedKeys observes the keys of the
\* sessions a poll of which was answered with `failed`, ptsChanged whether
\* the last session acquired came with a pts other than the lastPts known
\* before it, and recovered whether connectToServer then asked for the
\* missed events.
LSInitState ==
    Extended(LPInitState,
             [ key         |-> 0,
               ts          |-> 0,
               pts         |-> 0,
               lastPts     |-> 0,
               polls       |-> [q \in PollParams |-> 0],
               serverTs    |-> 1,
               sessions    |-> 0,
               failedKeys  |-> {},
               ptsChanged  |-> FALSE,
               recovered   |-> FALSE ])

enableMissedEventsRecovery == TRUE

\* The pts values the server answers with.
PtsValues == {1, 2}

-----------------------------------------------------------------------------
(* LongPollCollector with its session data: methods *)

\* pollForEvents() up to its first await: connectionParams are taken from
\* serverConfig when the request is made.
sessionPollForEvents(s) ==
    IF ~s.isRunning \/ ~s.connected \/ ~s.serverConfig THEN s
    ELSE [pollForEvents(s) EXCEPT
              !.polls[[key |-> s.key, from |-> s.serverTs]] = @ + 1]

sessionStartPolling(s) ==
    IF ~s.connected \/ ~s.serverConfig THEN s ELSE sessionPollForEvents(s)

\* recoverMissedEvents() up to the request for the history.
recoverMissedEvents(s) ==
    IF ~enableMissedEventsRecovery \/ ~s.serverConfig THEN s
    ELSE IF s.lastPts = 0 \/ s.pts = 0 \/ s.lastPts >= s.pts THEN s
         ELSE [s EXCEPT !.recovered = TRUE]

\* connectToServer() after the server answered with key k, ts t and pts p:
\* serverConfig and lastPts are assigned, then lastPts is compared with the
\* pts of the answer.
sessionConnectToServerOk(s, o, k, t, p) ==
    LET s1 == [connectToServerOk(s, o) EXCEPT
                   !.key = k, !.ts = t, !.pts = p,
                   !.lastPts = p,
                   !.ptsChanged = (s.lastPts # 0 /\ s.lastPts # p),
                   !.recovered = FALSE]
    IN  IF enableMissedEventsRecovery /\ s1.lastPts # 0 /\ s1.lastPts # p
        THEN recoverMissedEvents(s1)
        ELSE s1

\* reconnect() after connectToServer resolved.
sessionReconnectOk(s, o, k, t, p) ==
    LET s1 == [sessionConnectToServerOk(s, o, k, t, p) EXCEPT !.reconnectAttempts = 0]
    IN  IF s1.isRunning THEN sessionStartPolling(s1) ELSE s1

\* handleLongPollResponse() for a response with ts t and n events.
sessionHandleLongPollResponse(s, n, t) ==
    handleLongPollResponse([s EXCEPT !.ts = t], n)

\* A poll request made with parameters q is answered.
answered(s, q) ==
    [s EXCEPT !.pollsInFlight = @ - 1, !.polls[q] = @ - 1]

-----------------------------------------------------------------------------
(* LongPollCollector with its session data: steps *)

LSBounded(s) ==
    /\ s.pollsInFlight + Handlings(s) <= MaxPolls
    /\ s.pollOrphans <= MaxOrphans
    /\ s.reconnectOrphans <= MaxOrphans
    /\ AcquiringTotal(s) <= MaxSessionAcquiring

\* The observations of the run made for the collector above are not made
\* here.
Unobserved(s) ==
    [s EXCEPT !.pollFailed = FALSE,
              !.failedReconnects = 0,
              !.fatalStopped = FALSE,
              !.ownerNotified = FALSE,
              !.stopReturned = FALSE]

LSStep(s) == ls' = Unobserved(s) /\ LSBounded(s) /\ UNCHANGED <<lp, cm, um, eh, ep, bk, bd, fn>>

SessionStart ==
    /\ ~ls.isRunning
    /\ LSStep(connectToServerBegin(
                [Quiet(ls) EXCEPT !.isRunning = TRUE,
                                  !.quietSinceStart = FALSE,
                                  !.reconnectAttempts = 0,
                                  !.pollFailed = FALSE,
                                  !.failedReconnects = 0,
                                  !.fatalStopped = FALSE,
                                  !.ownerNotified = FALSE,
                                  !.stopReturned = FALSE], "start"))

\* getLongPollServerForChat answers: a new session, the ts of the server's
\* event counter and a pts, which is at least the pts of the answer before.
SessionStartConnected ==
    \E p \in PtsValues :
        /\ ls.acquiring["start"] > 0
        /\ ls.sessions < MaxSessions
        /\ p >= ls.lastPts
        /\ LSStep(sessionStartPolling(startHealthCheck(
               sessionConnectToServerOk([Quiet(ls) EXCEPT !.sessions = @ + 1],
                                        "start", ls.sessions + 1, ls.serverTs, p))))

SessionStartFailed ==
    /\ ls.acquiring["start"] > 0
    /\ LSStep([connectToServerFail(Quiet(ls), "start") EXCEPT
                 !.isRunning = FALSE, !.ownerNotified = TRUE])

SessionHealthCheck ==
    /\ ls.healthCheckTimer
    /\ ls.lastEventTime = "stale" \/ ls.quietSinceStart
    /\ LSStep(performHealthCheck([Quiet(ls) EXCEPT !.lastStep = "healthcheck"]))

SessionReconnectTimerFires ==
    /\ ls.reconnectTimer = "pending"
    /\ LSStep(reconnectBegin([Quiet(ls) EXCEPT !.reconnectTimer = "fired"], "background"))

SessionLeakedReconnectTimerFires ==
    /\ ls.reconnectOrphans > 0
    /\ LSStep(reconnectBegin([Quiet(ls) EXCEPT !.reconnectOrphans = @ - 1], "background"))

SessionReconnectConnected ==
    \E p \in PtsValues :
        /\ ls.acquiring["background"] > 0
        /\ ls.sessions < MaxSessions
        /\ p >= ls.lastPts
        /\ LSStep(sessionReconnectOk([Quiet(ls) EXCEPT !.sessions = @ + 1],
                                     "background", ls.sessions + 1, ls.serverTs, p))

SessionReconnectFailed ==
    /\ ls.acquiring["background"] > 0
    /\ LSStep(reconnectFail(Quiet(ls), "background"))

SessionPollTimerFires ==
    /\ ls.pollTimer = "pending"
    /\ LSStep(sessionPollForEvents([Quiet(ls) EXCEPT !.pollTimer = "fired"]))

SessionLeakedPollTimerFires ==
    /\ ls.pollOrphans > 0
    /\ LSStep(sessionPollForEvents([Quiet(ls) EXCEPT !.pollOrphans = @ - 1]))

\* connectToLongPollServer resolves: the server answered when its event
\* counter was t, at or after the moment of the request, with one event or
\* with none.
SessionPollResponse ==
    \E q \in PollParams, n \in 0..1, t \in 1..MaxServerTs :
        /\ ls.polls[q] > 0
        /\ q.from <= t /\ t <= ls.serverTs
        /\ LSStep(sessionHandleLongPollResponse(answered(Quiet(ls), q), n, t))

\* connectToLongPollServer rejects: a transport error or an HTTP status, or
\* an answer with `failed`.
SessionPollError ==
    \E q \in PollParams, failed \in BOOLEAN :
        /\ ls.polls[q] > 0
        /\ LSStep([handleConnectionError(answered(Quiet(ls), q)) EXCEPT
                       !.failedKeys = IF failed THEN @ \cup {q.key} ELSE @])

SessionCallbackDone ==
    /\ ls.handling[1] > 0
    /\ LSStep(callbackDone(Quiet(ls), 1))

SessionEventsGoStale ==
    /\ ls.lastEventTime = "fresh"
    /\ LSStep([Quiet(ls) EXCEPT !.lastEventTime = "stale"])

SessionNoEventSinceStart ==
    /\ ls.isRunning
    /\ ls.lastEventTime = "none"
    /\ ~ls.quietSinceStart
    /\ LSStep([Quiet(ls) EXCEPT !.quietSinceStart = TRUE])

\* An event occurs at the server.
ServerEvent ==
    /\ ls.serverTs < MaxServerTs
    /\ LSStep([Quiet(ls) EXCEPT !.serverTs = @ + 1])

LSInit == ls = LSInitState

LSNext ==
    \/ SessionStart
    \/ SessionStartConnected
    \/ SessionStartFailed
    \/ SessionHealthCheck
    \/ SessionReconnectTimerFires
    \/ SessionLeakedReconnectTimerFires
    \/ SessionReconnectConnected
    \/ SessionReconnectFailed
    \/ SessionPollTimerFires
    \/ SessionLeakedPollTimerFires
    \/ SessionPollResponse
    \/ SessionPollError
    \/ SessionCallbackDone
    \/ SessionEventsGoStale
    \/ SessionNoEventSinceStart
    \/ ServerEvent


-----------------------------------------------------------------------------
(* ChatFileManager: state *)

\* Two chats, one more than the cache is to hold.
ChatIds == {1, 2}
Slots == 1..MaxSlots
ObjIds == 1..(MaxSlots + Cardinality(ChatIds) + 1)

\* TParsedMessage, as far as saveMessage reads it.
Texts == {"a", "b"}
Timestamps == {1, 2}
ParsedMessages ==
    [messageId : 1..MaxMsgId, timestamp : Timestamps, text : Texts]

\* A chat file left by an earlier run: one message, or no file at all.
OldMessage == [id |-> 1, date |-> 1000, content |-> "a"]
NoFile == [exists |-> FALSE, messages |-> <<>>]
InitialFiles == {NoFile, [exists |-> TRUE, messages |-> <<OldMessage>>]}

FreeObj == [live |-> FALSE, messages |-> <<>>]
NoBackup == [made |-> FALSE, messages |-> <<>>]
IdleSlot == [pc |-> "idle", chatId |-> 0, msg |-> OldMessage, chat |-> 0,
             snapshot |-> <<>>, attempt |-> 0, backup |-> NoBackup]

\* chatCache is the Map in insertion order, heap the TChat objects the cache
\* and the calls refer to, disk the chat files, slots the saveMessage calls
\* at their await points.  calls counts the calls made; lastDone is the last
\* call that returned (valid until the next call is made), with the texts of
\* the earlier calls that returned for the same chat and message id; doneKeys
\* is the set of <<chat, id, text>> of the calls that returned.  A slot's
\* backup is the copy createBackup made for the call; threw tells whether a
\* saveMessage call has thrown.
CMInitStates ==
    [ chatCache     : {<<>>},
      chatFilePaths : {{}},
      heap          : {[o \in ObjIds |-> FreeObj]},
      disk          : [ChatIds -> InitialFiles],
      slots         : {[t \in Slots |-> IdleSlot]},
      calls         : {0},
      lastDone      : {[valid |-> FALSE, chatId |-> 0, msg |-> OldMessage, earlier |-> {}]},
      doneKeys      : {{}},
      threw         : {FALSE} ]

enableBackups == TRUE

-----------------------------------------------------------------------------
(* ChatFileManager: methods *)

\* this.chatCache.get(chatId): the object, or 0
cacheGet(s, c) ==
    IF \E i \in 1..Len(s.chatCache) : s.chatCache[i].id = c
    THEN s.chatCache[CHOOSE i \in 1..Len(s.chatCache) : s.chatCache[i].id = c].ref
    ELSE 0

\* this.chatCache.set(chatId, chat): a Map keeps the position of a known key
cacheSet(s, c, r) ==
    IF cacheGet(s, c) # 0
    THEN [s EXCEPT !.chatCache =
             [i \in 1..Len(@) |-> IF @[i].id = c THEN [id |-> c, ref |-> r] ELSE @[i]]]
    ELSE [s EXCEPT !.chatCache = Append(@, [id |-> c, ref |-> r])]

\* evictOldestCacheEntry(): delete the first key of the Map
evictOldestCacheEntry(s) ==
    IF s.chatCache = <<>> THEN s ELSE [s EXCEPT !.chatCache = Tail(@)]

\* new Date(a.date).getTime() of the ISO string toISOString() made of
\* timestamp * 1000: the milliseconds
getTime(date) == date

\* TParsedMessage -> TMessage
toChatMessage(pm) ==
    [id |-> pm.messageId, date |-> pm.timestamp * 1000, content |-> pm.text]

\* Array.prototype.sort with (a, b) => getTime(a.date) - getTime(b.date):
\* a stable sort, here by insertion.
RECURSIVE insertSorted(_, _)
insertSorted(sorted, m) ==
    IF sorted = <<>> THEN <<m>>
    ELSE IF getTime(sorted[Len(sorted)].date) - getTime(m.date) > 0
         THEN Append(insertSorted(SubSeq(sorted, 1, Len(sorted) - 1), m),
                     sorted[Len(sorted)])
         ELSE Append(sorted, m)

RECURSIVE sortByDate(_)
sortByDate(msgs) ==
    IF msgs = <<>> THEN <<>>
    ELSE insertSorted(sortByDate(SubSeq(msgs, 1, Len(msgs) - 1)), msgs[Len(msgs)])

\* chat.messages.findIndex(msg => msg.id === id), 0 for -1
findIndex(msgs, id) ==
    IF \E i \in 1..Len(msgs) : msgs[i].id = id
    THEN CHOOSE i \in 1..Len(msgs) :
             msgs[i].id = id /\ \A j \in 1..(i - 1) : msgs[j].id # id
    ELSE 0

\* addMessage without the search for the id: every message is appended.
addMessage_AlwaysAppend(msgs, m) == sortByDate(Append(msgs, m))

\* saveMessage, "Add message to chat (avoid duplicates)"
addMessage(msgs, m) ==
    IF findIndex(msgs, m.id) = 0
    THEN sortByDate(Append(msgs, m))
    ELSE [msgs EXCEPT ![findIndex(msgs, m.id)] = m]

\* A TChat object is created: the first free cell of the heap.
newObj(s) == CHOOSE o \in ObjIds : ~s.heap[o].live /\ \A p \in 1..(o - 1) : s.heap[p].live

\* Objects neither the cache nor a call refers to are collected.
Referenced(s) ==
    {s.chatCache[i].ref : i \in 1..Len(s.chatCache)} \cup {s.slots[t].chat : t \in Slots}

collect(s) ==
    [s EXCEPT !.heap = [o \in ObjIds |-> IF o \in Referenced(s) THEN @[o] ELSE FreeObj]]

\* loadChatFromFile() finding the file, then getChatData() caching the chat
\* and enforcing the cache size limit.
getChatDataLoaded(s, c) ==
    LET o  == newObj(s)
        s1 == cacheSet([s EXCEPT !.heap[o] = [live |-> TRUE, messages |-> s.disk[c].messages],
                                 !.chatFilePaths = @ \cup {c}], c, o)
    IN  IF Len(s1.chatCache) > maxMemoryCacheSize THEN evictOldestCacheEntry(s1) ELSE s1

-----------------------------------------------------------------------------
(* ChatFileManager: steps of saveMessage *)

Active(t) == cm.slots[t].pc # "idle"

CMStep(s) == cm' = collect(s) /\ UNCHANGED <<lp, ls, um, eh, ep, bk, bd, fn>>

\* saveMessage(chatId, message) up to the first await that waits for I/O:
\* getChatData() answers from the cache, or goes to the file.
SaveMessageBegin(t, c, m) ==
    /\ ~Active(t)
    /\ \A u \in 1..(t - 1) : Active(u)
    /\ cm.calls < MaxCalls
    /\ CMStep([cm EXCEPT !.calls = @ + 1,
                         !.lastDone.valid = FALSE,
                         !.slots[t] = [IdleSlot EXCEPT
                  !.pc = IF cacheGet(cm, c) # 0 THEN "author" ELSE "load",
                  !.chatId = c,
                  !.msg = toChatMessage(m),
                  !.chat = cacheGet(cm, c)]])

\* getChatData(): loadChatFromFile() returned the chat of the file, or null.
ChatLoaded(t) ==
    LET c == cm.slots[t].chatId IN
    /\ cm.slots[t].pc = "load"
    /\ IF cm.disk[c].exists
       THEN CMStep([getChatDataLoaded(cm, c) EXCEPT !.slots[t].pc = "author",
                                                     !.slots[t].chat = newObj(cm)])
       ELSE CMStep([cm EXCEPT !.slots[t].pc = "create"])

\* getChatData(): the file was found and its path kept, but reading it
\* failed; the catch returns null.
ChatLoadFailed(t) ==
    /\ cm.slots[t].pc = "load"
    /\ cm.disk[cm.slots[t].chatId].exists
    /\ CMStep([cm EXCEPT !.chatFilePaths = @ \cup {cm.slots[t].chatId},
                         !.slots[t].pc = "create"])

\* createNewChat() returned a chat without messages.
ChatCreated(t) ==
    /\ cm.slots[t].pc = "create"
    /\ CMStep([cm EXCEPT !.heap[newObj(cm)] = [live |-> TRUE, messages |-> <<>>],
                         !.slots[t].pc = "author",
                         !.slots[t].chat = newObj(cm)])

\* getUserInfo(message.fromId) resolved: the message goes into chat.messages,
\* then updateChatUsers() -> updateActiveUsers() asks getChatData() again.
AuthorResolved(t) ==
    LET c == cm.slots[t].chatId
        o == cm.slots[t].chat IN
    /\ cm.slots[t].pc = "author"
    /\ CMStep([cm EXCEPT !.heap[o].messages = addMessage(@, cm.slots[t].msg),
                         !.slots[t].pc = IF cacheGet(cm, c) # 0 THEN "activeUser"
                                         ELSE "activeLoad"])

\* updateActiveUsers(): getChatData() went to the file.  A chat found there is
\* cached; without a file updateActiveUsers() returns and saveMessage caches
\* its chat.
ActiveChatLoaded(t) ==
    LET c == cm.slots[t].chatId IN
    /\ cm.slots[t].pc = "activeLoad"
    /\ IF cm.disk[c].exists
       THEN CMStep([getChatDataLoaded(cm, c) EXCEPT !.slots[t].pc = "activeUser"])
       ELSE CMStep([cacheSet(cm, c, cm.slots[t].chat) EXCEPT !.slots[t].pc = "save"])

\* updateActiveUsers(): reading the file failed; getChatData() returns null.
ActiveChatLoadFailed(t) ==
    LET c == cm.slots[t].chatId IN
    /\ cm.slots[t].pc = "activeLoad"
    /\ cm.disk[c].exists
    /\ CMStep([cacheSet(cm, c, cm.slots[t].chat) EXCEPT
                  !.chatFilePaths = @ \cup {c},
                  !.slots[t].pc = "save"])

\* updateActiveUsers(): getUserInfo(userId) resolved; the chat it found is
\* put in the cache, then saveMessage puts its own chat there.
ActiveUserResolved(t) ==
    /\ cm.slots[t].pc = "activeUser"
    /\ CMStep([cacheSet(cm, cm.slots[t].chatId, cm.slots[t].chat) EXCEPT
                  !.slots[t].pc = "save"])

\* saveChatToFile(): a backup is asked for when the path of the chat's file
\* is known.
backupWanted(s, c) == enableBackups /\ c \in s.chatFilePaths

\* saveChatToFile() -> writeJSONFile(): JSON.stringify(data), fs.writeFile.
writeJSONFile(s, t) ==
    [s EXCEPT !.chatFilePaths = @ \cup {s.slots[t].chatId},
              !.slots[t].pc = "writing",
              !.slots[t].attempt = 1,
              !.slots[t].snapshot = s.heap[s.slots[t].chat].messages]

\* saveChatToFile() without a backup: the path of the chat's file is not
\* known.
WriteStart(t) ==
    /\ cm.slots[t].pc = "save"
    /\ ~backupWanted(cm, cm.slots[t].chatId)
    /\ CMStep(writeJSONFile(cm, t))

\* saveChatToFile(): createBackup() copied the file, or found no file and
\* returned null; the write begins.
BackupCreated(t) ==
    LET c == cm.slots[t].chatId IN
    /\ cm.slots[t].pc = "save"
    /\ backupWanted(cm, c)
    /\ CMStep(writeJSONFile(
           [cm EXCEPT !.slots[t].backup =
                          IF cm.disk[c].exists
                          THEN [made |-> TRUE, messages |-> cm.disk[c].messages]
                          ELSE NoBackup], t))

\* saveChatToFile(): fs.copyFile rejected in createBackup(), whose catch
\* returns null; the write begins.
BackupFailed(t) ==
    LET c == cm.slots[t].chatId IN
    /\ cm.slots[t].pc = "save"
    /\ backupWanted(cm, c)
    /\ cm.disk[c].exists
    /\ CMStep(writeJSONFile(cm, t))

\* fs.writeFile resolved: saveMessage returns.
WriteDone(t) ==
    LET c == cm.slots[t].chatId
        m == cm.slots[t].msg IN
    /\ cm.slots[t].pc = "writing"
    /\ CMStep([cm EXCEPT !.disk[c] = [exists |-> TRUE, messages |-> cm.slots[t].snapshot],
                         !.slots[t] = IdleSlot,
                         !.lastDone = [valid |-> TRUE, chatId |-> c, msg |-> m,
                                       earlier |-> {k[3] : k \in {d \in cm.doneKeys :
                                                       d[1] = c /\ d[2] = m.id}}],
                         !.doneKeys = @ \cup {<<c, m.id, m.content>>}])

\* fs.writeFile rejected: stringify and write again after the backoff delay,
\* or throw after maxRetries attempts, and saveMessage rethrows.
WriteFailed(t) ==
    /\ cm.slots[t].pc = "writing"
    /\ IF cm.slots[t].attempt < maxRetries
       THEN CMStep([cm EXCEPT !.slots[t].attempt = @ + 1,
                              !.slots[t].snapshot = cm.heap[cm.slots[t].chat].messages])
       ELSE CMStep([cm EXCEPT !.slots[t] = IdleSlot, !.threw = TRUE])

CMInit == cm \in CMInitStates

SaveMessageSteps ==
    \E t \in Slots :
        \/ ChatLoaded(t)
        \/ ChatLoadFailed(t)
        \/ ChatCreated(t)
        \/ AuthorResolved(t)
        \/ ActiveChatLoaded(t)
        \/ ActiveChatLoadFailed(t)
        \/ ActiveUserResolved(t)
        \/ BackupCreated(t)
        \/ BackupFailed(t)
        \/ WriteStart(t)
        \/ WriteDone(t)
        \/ WriteFailed(t)

\* saveMessage may be called while other calls are in flight.
SaveMessageCalled ==
    \E t \in Slots, c \in ChatIds, m \in ParsedMessages :
        SaveMessageBegin(t, c, m)

\* saveMessage is called only when no other call is in flight.
SaveMessageCalledAlone ==
    /\ \A t \in Slots : ~Active(t)
    /\ SaveMessageCalled

CMNext == SaveMessageCalled \/ SaveMessageSteps

CMSeqNext == SaveMessageCalledAlone \/ SaveMessageSteps


-----------------------------------------------------------------------------
(* UserManager: state *)

UserIds == 1..MaxUserId
Callers == 1..MaxCallers

NoResult == [lookup |-> 0, val |-> "none"]
IdleCaller == [pc |-> "idle", userId |-> 0, lookup |-> 0, chunk |-> <<>>,
               rest |-> <<>>, result |-> NoResult]

\* userCache[u] is "none", "fresh" (cached and not expired) or "expired";
\* pendingRequests[u] is the caller whose fetchSingleUser promise the Map
\* holds, 0 without an entry.  A caller is a getUserInfo call ("fetching" its
\* own request or "awaiting" the pending promise of another call) or a
\* batchGetUsers call ("batchFetching" a chunk, or in the "batchDelay" between
\* two chunks); lookup is the serial number of the vkApi.getUsers request it
\* waits for, result what its last getUserInfo call returned.  lookups counts
\* the vkApi.getUsers requests.
UMInitState ==
    [ userCache       |-> [u \in UserIds |-> "none"],
      pendingRequests |-> [u \in UserIds |-> 0],
      callers         |-> [c \in Callers |-> IdleCaller],
      lookups         |-> 0 ]

-----------------------------------------------------------------------------
(* UserManager: methods *)

\* cached && !isCacheExpired(cached)
cacheHit(s, u) == s.userCache[u] = "fresh"

\* cacheUser(user): mapVKUserToTUser and the placeholder both give a name
\* that is not empty, so validateUser accepts the user.
cacheUser(s, u) == [s EXCEPT !.userCache[u] = "fresh"]

RECURSIVE cacheUsers(_, _)
cacheUsers(s, ids) ==
    IF ids = <<>> THEN s ELSE cacheUsers(cacheUser(s, Head(ids)), Tail(ids))

\* getUserInfo(userId) up to its first await, without the look into
\* pendingRequests: every miss of the cache sends a request.
getUserInfoBegin_NoCoalescing(s, c, u) ==
    IF cacheHit(s, u)
    THEN [s EXCEPT !.callers[c] = [IdleCaller EXCEPT !.userId = u,
                                       !.result = [lookup |-> 0, val |-> "cached"]]]
    ELSE [s EXCEPT !.lookups = @ + 1,
                   !.pendingRequests[u] = c,
                   !.callers[c] = [IdleCaller EXCEPT !.pc = "fetching", !.userId = u,
                                       !.lookup = s.lookups + 1]]

\* getUserInfo(userId) up to its first await: the answer of the cache, the
\* pending promise of another call, or a request of its own.
getUserInfoBegin(s, c, u) ==
    IF cacheHit(s, u)
    THEN [s EXCEPT !.callers[c] = [IdleCaller EXCEPT !.userId = u,
                                       !.result = [lookup |-> 0, val |-> "cached"]]]
    ELSE IF s.pendingRequests[u] # 0
         THEN [s EXCEPT !.callers[c] = [IdleCaller EXCEPT !.pc = "awaiting", !.userId = u,
                                            !.lookup = s.callers[s.pendingRequests[u]].lookup]]
         ELSE [s EXCEPT !.lookups = @ + 1,
                        !.pendingRequests[u] = c,
                        !.callers[c] = [IdleCaller EXCEPT !.pc = "fetching", !.userId = u,
                                            !.lookup = s.lookups + 1]]

\* fetchSingleUser resolved with v (the user, or the placeholder after an
\* error): the call that sent the request caches the user and deletes the
\* pending entry; the calls that returned the pending promise get v too.
getUserInfoResolved(s, c, v) ==
    LET u == s.callers[c].userId
        n == s.callers[c].lookup
        s1 == [cacheUser(s, u) EXCEPT !.pendingRequests[u] = 0]
    IN  [s1 EXCEPT !.callers =
            [d \in Callers |->
                IF d = c \/ (s.callers[d].pc = "awaiting" /\ s.callers[d].lookup = n)
                THEN [IdleCaller EXCEPT !.userId = s.callers[d].userId,
                                        !.result = [lookup |-> n, val |-> v]]
                ELSE s.callers[d]]]

\* The ids of a batchGetUsers call the cache does not answer, in the order of
\* the argument.
RECURSIVE uncached(_, _)
uncached(s, ids) ==
    IF ids = <<>> THEN <<>>
    ELSE IF cacheHit(s, Head(ids)) THEN uncached(s, Tail(ids))
         ELSE <<Head(ids)>> \o uncached(s, Tail(ids))

\* fetchUsersInBatches(): the request for the next batchSize ids.
fetchNextBatch(s, c, ids) ==
    [s EXCEPT !.lookups = @ + 1,
              !.callers[c] = [IdleCaller EXCEPT
                  !.pc = "batchFetching",
                  !.lookup = s.lookups + 1,
                  !.chunk = SubSeq(ids, 1, Min(batchSize, Len(ids))),
                  !.rest = SubSeq(ids, Min(batchSize, Len(ids)) + 1, Len(ids)),
                  !.result = s.callers[c].result]]

\* batchGetUsers(userIds) up to its first await.
batchGetUsersBegin(s, c, ids) ==
    IF uncached(s, ids) = <<>>
    THEN [s EXCEPT !.callers[c] = IdleCaller]
    ELSE fetchNextBatch([s EXCEPT !.callers[c] = [IdleCaller EXCEPT
                                      !.result = [lookup |-> 0, val |-> <<>>]]],
                        c, uncached(s, ids))

\* vkApi.getUsers for a batch resolved or rejected: users or placeholders for
\* the batch; then the delay before the next batch, or, after the last batch,
\* batchGetUsers caches every fetched user.
batchResolved(s, c) ==
    LET fetched == s.callers[c].result.val \o s.callers[c].chunk IN
    IF s.callers[c].rest # <<>>
    THEN [s EXCEPT !.callers[c].pc = "batchDelay",
                   !.callers[c].chunk = <<>>,
                   !.callers[c].lookup = 0,
                   !.callers[c].result.val = fetched]
    ELSE [cacheUsers(s, fetched) EXCEPT !.callers[c] = IdleCaller]

-----------------------------------------------------------------------------
(* UserManager: steps *)

UMBounded(s) == s.lookups <= MaxLookups

UMStep(s) == um' = s /\ UMBounded(s) /\ UNCHANGED <<lp, ls, cm, eh, ep, bk, bd, fn>>

FirstIdle(c) ==
    /\ um.callers[c].pc = "idle"
    /\ \A d \in 1..(c - 1) : um.callers[d].pc # "idle"

\* The arrays batchGetUsers is called with: the ids of a set, ascending.
RECURSIVE Ascending(_)
Ascending(ids) ==
    IF ids = {} THEN <<>>
    ELSE LET m == CHOOSE x \in ids : \A y \in ids : x <= y
         IN  <<m>> \o Ascending(ids \ {m})

GetUserInfoCalled ==
    \E c \in Callers, u \in UserIds :
        /\ FirstIdle(c)
        /\ UMStep(getUserInfoBegin(um, c, u))

GetUserInfoResolved ==
    \E c \in Callers, v \in {"user", "placeholder"} :
        /\ um.callers[c].pc = "fetching"
        /\ UMStep(getUserInfoResolved(um, c, v))

BatchGetUsersCalled ==
    \E c \in Callers, ids \in (SUBSET UserIds) \ {{}} :
        /\ FirstIdle(c)
        /\ UMStep(batchGetUsersBegin(um, c, Ascending(ids)))

BatchResolved ==
    \E c \in Callers :
        /\ um.callers[c].pc = "batchFetching"
        /\ UMStep(batchResolved(um, c))

\* The 100 ms between two batches are over.
BatchDelayOver ==
    \E c \in Callers :
        /\ um.callers[c].pc = "batchDelay"
        /\ UMStep(fetchNextBatch(um, c, um.callers[c].rest))

\* cacheTimeToLive passes for a cached user.
CacheEntryExpires ==
    \E u \in UserIds :
        /\ um.userCache[u] = "fresh"
        /\ UMStep([um EXCEPT !.userCache[u] = "expired"])

UMInit == um = UMInitState

UMNext ==
    \/ GetUserInfoCalled
    \/ GetUserInfoResolved
    \/ BatchGetUsersCalled
    \/ BatchResolved
    \/ BatchDelayOver
    \/ CacheEntryExpires

-----------------------------------------------------------------------------
(* ErrorHandler: state *)

ErrorTypes ==
    {"network", "api", "filesystem", "validation", "timeout", "rate_limit", "unknown"}

\* Error messages, one for each way classifyError() decides.
Messages ==
    {"fetch failed", "Invalid access token", "Too many requests", "ENOENT",
     "Handler timeout", "validation failed", "boom"}

Priorities == {"high", "normal", "low"}

\* The readings of the clock that stamps the buffered operations.
ClockReadings == {1, 2}

enableBuffering == TRUE

NoErrorCall == [pc |-> "new", type |-> "unknown", attempt |-> 0,
                outcome |-> "none", buffered |-> FALSE,
                limit |-> 0, calls |-> 0, stoppedBy |-> "none"]

\* buffer is the Map in insertion order, each operation with the reading of
\* the clock (now) at which it was buffered.  bufferFlushTimer says that the
\* interval timer is set, evicted holds the ids that the step just taken
\* removed in handleBufferOverflow().
\* operations is what is left of the sorted array processBuffer() walks
\* through, its head being the operation awaited.  call is the handleError
\* call in flight or the last one that ended; buffered says whether the call
\* put its operation into the buffer, limit is its retriesLimit, calls the
\* number of times it has invoked its operation, stoppedBy the type of the
\* error of a retry that made it give up before the limit.
EHInitState ==
    [ buffer             |-> <<>>,
      isProcessingBuffer |-> FALSE,
      operations         |-> <<>>,
      nextId             |-> 0,
      bufferOverflows    |-> FALSE,
      bufferFlushTimer   |-> enableBuffering,
      evicted            |-> <<>>,
      now                |-> 1,
      call               |-> NoErrorCall ]

-----------------------------------------------------------------------------
(* ErrorHandler: methods *)

\* classifyError(error): the rules of the configuration in their order, then
\* the additional patterns.
classifyError(m) ==
    CASE m = "fetch failed"         -> "network"
      [] m = "Invalid access token" -> "api"
      [] m = "Too many requests"    -> "rate_limit"
      [] m = "ENOENT"               -> "filesystem"
      [] m = "Handler timeout"      -> "timeout"
      [] m = "validation failed"    -> "validation"
      [] OTHER                      -> "unknown"

\* shouldRetry() that looks at the number of attempts only.
shouldRetry_AnyType(errorType, attempt) == ~(attempt >= errorMaxRetries)

shouldRetry(errorType, attempt) ==
    /\ errorType # "validation"
    /\ ~(attempt >= errorMaxRetries)
    /\ errorType \in {"network", "api", "timeout", "filesystem", "rate_limit"}

shouldBuffer(errorType) ==
    errorType \in {"network", "filesystem", "timeout", "rate_limit"}

priorityOrder(p) == CASE p = "high" -> 3 [] p = "normal" -> 2 [] OTHER -> 1

InBuffer(s, id) == \E i \in 1..Len(s.buffer) : s.buffer[i].id = id

bufferDelete(s, id) ==
    [s EXCEPT !.buffer = SelectSeq(@, LAMBDA e : e.id # id)]

\* The first n operations leave the buffer, whatever their priority.
RECURSIVE removeOldestLow_AnyPriority(_, _)
removeOldestLow_AnyPriority(buf, n) ==
    IF n = 0 \/ buf = <<>> THEN buf
    ELSE removeOldestLow_AnyPriority(Tail(buf), n - 1)

\* The first n low priority operations leave the buffer: the timestamps of
\* the buffer never decrease, and the sort is stable.
RECURSIVE removeOldestLow(_, _)
removeOldestLow(buf, n) ==
    IF n = 0 \/ buf = <<>> THEN buf
    ELSE IF Head(buf).priority = "low" THEN removeOldestLow(Tail(buf), n - 1)
         ELSE <<Head(buf)>> \o removeOldestLow(Tail(buf), n)

\* handleBufferOverflow(): Math.max(1, Math.floor(bufferSize * 0.1)) of the
\* oldest low priority operations are removed.
handleBufferOverflow(s) ==
    LET toRemove == IF bufferSize \div 10 > 1 THEN bufferSize \div 10 ELSE 1
        left == removeOldestLow(s.buffer, toRemove)
        stays(e) == \E i \in 1..Len(left) : left[i].id = e.id
        removed == SelectSeq(s.buffer, LAMBDA e : ~stays(e))
    IN  [s EXCEPT !.bufferOverflows = TRUE,
                  !.buffer = left,
                  !.evicted = [i \in 1..Len(removed) |-> removed[i].id]]

bufferAdd(s, priority) ==
    [s EXCEPT !.nextId = @ + 1,
              !.buffer = Append(@, [id |-> s.nextId + 1, timestamp |-> s.now,
                                    priority |-> priority, retryCount |-> 0])]

\* bufferOperation() without the look at the capacity.
bufferOperation_NoCapacityCheck(s, priority) ==
    IF ~enableBuffering THEN s ELSE bufferAdd(s, priority)

\* bufferOperation(operation, context, error, priority)
bufferOperation(s, priority) ==
    IF ~enableBuffering THEN s
    ELSE IF Len(s.buffer) >= bufferSize THEN handleBufferOverflow(s)
         ELSE bufferAdd(s, priority)

\* The comparison of the sort that looks at the timestamps only.
compareOperations_AgeOnly(a, b) == a.timestamp - b.timestamp

\* processBuffer(): the comparison of the sort.
compareOperations(a, b) ==
    LET priorityDiff == priorityOrder(b.priority) - priorityOrder(a.priority)
    IN  IF priorityDiff # 0 THEN priorityDiff ELSE a.timestamp - b.timestamp

\* Array.prototype.sort is stable: an element goes behind the elements
\* before it in the array that do not compare greater.
RECURSIVE sortStable(_)
sortStable(array) ==
    IF array = <<>> THEN <<>>
    ELSE LET e == array[Len(array)]
             front == sortStable(SubSeq(array, 1, Len(array) - 1))
             ahead == SelectSeq(front, LAMBDA x : compareOperations(x, e) <= 0)
             behind == SelectSeq(front, LAMBDA x : compareOperations(x, e) > 0)
         IN  ahead \o <<e>> \o behind

\* processBuffer(): the operations sorted by priority, the older first.
sortedOperations(buf) ==
    [i \in 1..Len(buf) |-> sortStable(buf)[i].id]

\* processBuffer() up to its first await.
processBuffer(s) ==
    IF s.isProcessingBuffer \/ Len(s.buffer) = 0 THEN s
    ELSE [s EXCEPT !.isProcessingBuffer = TRUE,
                   !.operations = sortedOperations(s.buffer)]

\* processBuffer(): the catch of an operation that rejected, without the
\* count of the retries and the removal at maxRetries.
operationRejected_NeverCounted(s, id) == s

\* processBuffer(): the catch of an operation that rejected: op.retryCount++,
\* and the operation leaves the buffer at maxRetries.
operationRejected(s, id) ==
    LET s1 == [s EXCEPT !.buffer =
                  [i \in 1..Len(@) |->
                      IF @[i].id = id THEN [@[i] EXCEPT !.retryCount = @ + 1]
                      ELSE @[i]]]
        gone == \E i \in 1..Len(s1.buffer) :
                    s1.buffer[i].id = id /\ s1.buffer[i].retryCount >= errorMaxRetries
    IN  IF gone THEN bufferDelete(s1, id) ELSE s1

\* destroy() up to its first await.
destroy(s) == processBuffer([s EXCEPT !.bufferFlushTimer = FALSE])

\* processBuffer(): the loop goes to the next operation, or ends.
nextOperation(s) ==
    [s EXCEPT !.operations = Tail(@),
              !.isProcessingBuffer = Tail(s.operations) # <<>>]

\* The end of the handleError call with an error thrown or a result.
endCall(s, outcome) ==
    [s EXCEPT !.call.pc = "done", !.call.outcome = outcome]

\* handleFileSystemError(): Math.min(3, this.config.maxRetries)
fileSystemRetries == IF 3 < errorMaxRetries THEN 3 ELSE errorMaxRetries

\* handleError(error, operation, context, maxRetries) up to its first await
\* or its throw.
handleError(s, m, retriesLimit) ==
    LET errorType == classifyError(m)
        s1 == [s EXCEPT !.call = [NoErrorCall EXCEPT !.type = errorType,
                                                     !.limit = retriesLimit]]
    IN  IF shouldRetry(errorType, 0)
        THEN [s1 EXCEPT !.call.pc = "delay", !.call.attempt = 1]
        ELSE IF enableBuffering /\ shouldBuffer(errorType)
             THEN [endCall(bufferOperation(s1, "normal"), "thrown") EXCEPT
                      !.call.buffered = bufferOperation(s1, "normal").nextId # s1.nextId]
             ELSE endCall(s1, "thrown")

\* retryWithBackoff(): the operation rejected with message m in attempt
\* call.attempt.
retryRejected(s, m) ==
    IF s.call.attempt = s.call.limit
    THEN endCall(s, "exhausted")
    ELSE IF ~shouldRetry(classifyError(m), s.call.attempt)
         THEN [endCall(s, "stopped") EXCEPT !.call.stoppedBy = classifyError(m)]
         ELSE [s EXCEPT !.call.pc = "delay", !.call.attempt = @ + 1]

-----------------------------------------------------------------------------
(* ErrorHandler: steps *)

EHBounded(s) == s.nextId <= MaxBuffered /\ s.now \in ClockReadings

\* evicted is of one step.
EHStep(s) ==
    /\ eh' = [s EXCEPT !.evicted = IF s.evicted = eh.evicted THEN <<>> ELSE @]
    /\ EHBounded(s)
    /\ UNCHANGED <<lp, ls, cm, um, ep, bk, bd, fn>>

\* bufferOperation() called directly: it adds an operation, or finds the
\* buffer full.
BufferOperationCalled ==
    \E p \in Priorities :
        /\ eh.nextId < MaxBuffered \/ Len(eh.buffer) >= bufferSize
        /\ EHStep(bufferOperation(eh, p))

\* processBuffer() is called by the owner: the first operation of the
\* sorted array is awaited.
ProcessBufferBegin ==
    /\ ~(eh.isProcessingBuffer \/ Len(eh.buffer) = 0)
    /\ EHStep(processBuffer(eh))

\* The interval of startBufferFlushTimer() is over.
FlushTimerFires ==
    /\ eh.bufferFlushTimer
    /\ Len(eh.buffer) > 0
    /\ EHStep(processBuffer(eh))

\* destroy() is called.
Destroy ==
    /\ eh.bufferFlushTimer
    /\ EHStep(destroy(eh))

\* Time passes by a millisecond or more.
ErrorClockTick ==
    /\ eh.now + 1 \in ClockReadings
    /\ EHStep([eh EXCEPT !.now = @ + 1])

BufferedOperationSucceeded ==
    /\ eh.operations # <<>>
    /\ EHStep(nextOperation(bufferDelete(eh, Head(eh.operations))))

BufferedOperationFailed ==
    /\ eh.operations # <<>>
    /\ EHStep(nextOperation(operationRejected(eh, Head(eh.operations))))

ClearBuffer ==
    /\ eh.buffer # <<>>
    /\ EHStep([eh EXCEPT !.buffer = <<>>])

\* handleError is called when the call before it has ended, by its caller
\* or by handleConnectionError with config.maxRetries, or by
\* handleFileSystemError.
HandleErrorCalled ==
    \E m \in Messages, retriesLimit \in {errorMaxRetries, fileSystemRetries} :
        /\ eh.call.pc \in {"new", "done"}
        /\ EHStep(handleError(eh, m, retriesLimit))

\* The backoff delay is over: the operation is called.
RetryDelayOver ==
    /\ eh.call.pc = "delay"
    /\ EHStep([eh EXCEPT !.call.pc = "running", !.call.calls = @ + 1])

RetrySucceeded ==
    /\ eh.call.pc = "running"
    /\ EHStep(endCall(eh, "recovered"))

RetryFailed ==
    \E m \in Messages :
        /\ eh.call.pc = "running"
        /\ EHStep(retryRejected(eh, m))

EHInit == eh = EHInitState

\* The buffer with its clock, its flush timer and destroy().
EHBufferNext ==
    \/ BufferOperationCalled
    \/ ProcessBufferBegin
    \/ FlushTimerFires
    \/ Destroy
    \/ ErrorClockTick
    \/ BufferedOperationSucceeded
    \/ BufferedOperationFailed
    \/ ClearBuffer

\* The buffer with its flush timer and destroy(), all operations buffered
\* within one millisecond.
EHFlushNext ==
    \/ BufferOperationCalled
    \/ ProcessBufferBegin
    \/ FlushTimerFires
    \/ Destroy
    \/ BufferedOperationSucceeded
    \/ BufferedOperationFailed
    \/ ClearBuffer

\* The handleError calls and the buffer.
EHNext ==
    \/ BufferOperationCalled
    \/ ProcessBufferBegin
    \/ BufferedOperationSucceeded
    \/ BufferedOperationFailed
    \/ ClearBuffer
    \/ HandleErrorCalled
    \/ RetryDelayOver
    \/ RetrySucceeded
    \/ RetryFailed

-----------------------------------------------------------------------------
(* EventProcessor: state *)

Handlers == 1..NumHandlers

NoHandler == [pc |-> "none", attempt |-> 0, hangs |-> FALSE,
              timedOut |-> FALSE, handed |-> FALSE, settled |-> "none"]

\* pc is where the innermost processEvent call stands: "handlers" while it
\* awaits Promise.all, "delay" and "returned".  retries holds the attempt
\* numbers of the retryWithBackoff loops of the processEvent calls that wait
\* in their catch for a retry of processEvent, the outermost first.
\* handlers[h] is executeHandlerSafely for handler h in the innermost call:
\* "racing" against the timeout, in the backoff "delay", "retrying" (the
\* handler called by retryWithBackoff), "ok" or "failed"; hangs says that the
\* handler call awaited never settles, timedOut that the timeout won the race,
\* handed that handleError got the failure, settled how the last call of the
\* handler that settled did so.  succeeded holds the handlers of which a call
\* for the event has resolved, reinvoked those called again for the event
\* after that.  The executions an abandoned processEvent call leaves behind
\* are not followed.
EPInitState ==
    [ pc        |-> "idle",
      result    |-> "none",
      retries   |-> <<>>,
      handlers  |-> [h \in Handlers |-> NoHandler],
      succeeded |-> {},
      reinvoked |-> {} ]

-----------------------------------------------------------------------------
(* EventProcessor: methods *)

\* handleError() called by the EventProcessor, as far as the ErrorHandler
\* changes: an error that is not retried is buffered if shouldBuffer().
handleErrorBuffering(e, m) ==
    IF ~shouldRetry(classifyError(m), 0) /\ enableBuffering /\ shouldBuffer(classifyError(m))
    THEN bufferOperation(e, "normal")
    ELSE e

\* processEvent: handlers.map(handler => executeHandlerSafely(...)) calls one
\* handler only; the others wait for it.
invokeHandlers_OneAtATime(s, hv) ==
    [s EXCEPT !.pc = "handlers",
              !.reinvoked = @ \cup (s.succeeded \cap {1}),
              !.handlers = [h \in Handlers |->
                  IF h = 1 THEN [NoHandler EXCEPT !.pc = "racing", !.hangs = hv[h]]
                  ELSE NoHandler]]

\* processEvent: handlers.map(handler => executeHandlerSafely(...)) calls
\* every handler, each racing against its timeout.
invokeHandlers(s, hv) ==
    [s EXCEPT !.pc = "handlers",
              !.reinvoked = @ \cup s.succeeded,
              !.handlers = [h \in Handlers |->
                  [NoHandler EXCEPT !.pc = "racing", !.hangs = hv[h]]]]

\* processEvent returns: the retryWithBackoff loops that called it return its
\* result, and so do the processEvent calls that wait for them.
processEventReturned(s) ==
    [s EXCEPT !.pc = "returned", !.result = "ok", !.retries = <<>>]

\* processEvent rejects with m: the loop that called it retries after a
\* delay, or throws, and then the processEvent call waiting for it rejects.
RECURSIVE processEventThrew(_, _)
processEventThrew(s, m) ==
    IF s.retries = <<>>
    THEN [s EXCEPT !.pc = "returned", !.result = "rejected"]
    ELSE IF s.retries[Len(s.retries)] = errorMaxRetries
            \/ ~shouldRetry(classifyError(m), s.retries[Len(s.retries)])
         THEN processEventThrew([s EXCEPT !.retries = SubSeq(@, 1, Len(@) - 1)], m)
         ELSE [s EXCEPT !.pc = "delay", !.retries[Len(s.retries)] = @ + 1]

\* The catch of processEvent: handleError(error, () => this.processEvent(event)).
processEventCaught(s, m) ==
    IF shouldRetry(classifyError(m), 0)
    THEN [s EXCEPT !.pc = "delay", !.retries = Append(@, 1)]
    ELSE processEventThrew(s, m)

\* executeHandlerSafely settles: Promise.all resolves with the last handler.
handlerDone(s, h) ==
    LET s1 == [s EXCEPT !.handlers[h].pc = "ok", !.handlers[h].settled = "resolved",
                        !.succeeded = @ \cup {h}] IN
    IF s.pc = "handlers" /\ \A g \in Handlers : s1.handlers[g].pc = "ok"
    THEN processEventReturned(s1)
    ELSE s1

\* executeHandlerSafely rejects with m: Promise.all rejects with the first.
handlerThrew(s, h, m) ==
    LET s1 == [s EXCEPT !.handlers[h].pc = "failed"] IN
    IF s.pc = "handlers" THEN processEventCaught(s1, m) ELSE s1

\* The catch of executeHandlerSafely: handleError(error, () => handler(event)).
handlerCaught(s, h, m, byTimeout) ==
    LET s1 == [s EXCEPT !.handlers[h].handed = TRUE,
                        !.handlers[h].timedOut = byTimeout,
                        !.handlers[h].settled = IF byTimeout THEN @ ELSE "rejected"]
    IN  IF shouldRetry(classifyError(m), 0)
        THEN [s1 EXCEPT !.handlers[h].pc = "delay", !.handlers[h].attempt = 1]
        ELSE handlerThrew(s1, h, m)

\* retryWithBackoff(): handler(event) rejected with m.
handlerRetryRejected(s, h, m) ==
    LET s1 == [s EXCEPT !.handlers[h].settled = "rejected"] IN
    IF s.handlers[h].attempt = errorMaxRetries
       \/ ~shouldRetry(classifyError(m), s.handlers[h].attempt)
    THEN handlerThrew(s1, h, m)
    ELSE [s1 EXCEPT !.handlers[h].pc = "delay", !.handlers[h].attempt = @ + 1]

-----------------------------------------------------------------------------
(* EventProcessor: steps *)

EPBounded(s) == Len(s.retries) <= MaxDepth

EPStep(s, e) == ep' = s /\ eh' = e /\ EPBounded(s) /\ UNCHANGED <<lp, ls, cm, um, bk, bd, fn>>

\* processEvent(event) for an event whose type has handlers.
ProcessEventCalled ==
    \E hv \in [Handlers -> BOOLEAN] :
        /\ ep.pc \in {"idle", "returned"}
        /\ EPStep(invokeHandlers([ep EXCEPT !.result = "none", !.retries = <<>>,
                                             !.succeeded = {}, !.reinvoked = {}], hv), eh)

HandlerResolved ==
    \E h \in Handlers :
        /\ ep.handlers[h].pc = "racing"
        /\ ~ep.handlers[h].hangs
        /\ EPStep(handlerDone(ep, h), eh)

\* The handler rejected: handleError for the handler and, if this rejects
\* Promise.all and is not retried, handleError for processEvent.
HandlerRejected ==
    \E h \in Handlers, m \in Messages :
        /\ ep.handlers[h].pc = "racing"
        /\ ~ep.handlers[h].hangs
        /\ EPStep(handlerCaught(ep, h, m, FALSE),
                  IF ep.pc = "handlers" /\ ~shouldRetry(classifyError(m), 0)
                  THEN handleErrorBuffering(handleErrorBuffering(eh, m), m)
                  ELSE handleErrorBuffering(eh, m))

\* processingTimeout is over before the handler settled.
HandlerTimeout ==
    \E h \in Handlers :
        /\ ep.handlers[h].pc = "racing"
        /\ EPStep(handlerCaught(ep, h, "Handler timeout", TRUE),
                  handleErrorBuffering(eh, "Handler timeout"))

\* The backoff delay is over: retryWithBackoff calls handler(event).
HandlerRetryDelayOver ==
    \E h \in Handlers, hangs \in BOOLEAN :
        /\ ep.handlers[h].pc = "delay"
        /\ EPStep([ep EXCEPT !.handlers[h].pc = "retrying",
                             !.handlers[h].hangs = hangs], eh)

HandlerRetryResolved ==
    \E h \in Handlers :
        /\ ep.handlers[h].pc = "retrying"
        /\ ~ep.handlers[h].hangs
        /\ EPStep(handlerDone(ep, h), eh)

HandlerRetryRejected ==
    \E h \in Handlers, m \in Messages :
        /\ ep.handlers[h].pc = "retrying"
        /\ ~ep.handlers[h].hangs
        /\ EPStep(handlerRetryRejected(ep, h, m),
                  IF ep.pc = "handlers"
                     /\ handlerRetryRejected(ep, h, m).handlers[h].pc = "failed"
                  THEN handleErrorBuffering(eh, m)
                  ELSE eh)

\* The backoff delay of the retry of processEvent is over: processEvent is
\* called again.
ProcessEventRetried ==
    \E hv \in [Handlers -> BOOLEAN] :
        /\ ep.pc = "delay"
        /\ EPStep(invokeHandlers(ep, hv), eh)

EPInit == ep = EPInitState

EPNext ==
    \/ ProcessEventCalled
    \/ HandlerResolved
    \/ HandlerRejected
    \/ HandlerTimeout
    \/ HandlerRetryDelayOver
    \/ HandlerRetryResolved
    \/ HandlerRetryRejected
    \/ ProcessEventRetried

-----------------------------------------------------------------------------
(* Backup files: FileStorage.createBackup, FileIntegrityChecker and           *)
(* UserCacheManager (unnamed/part_011, services/FileIntegrityChecker,         *)
(* storage/UserCacheManager)                                                  *)

\* The content of a file: version v of the data, whole, or cut before its
\* closing brace, or bytes that are no JSON and hold no brace at all.
Versions == {1, 2}
Missing == [v |-> 0, form |-> "missing"]
Garbage == [v |-> 0, form |-> "garbage"]
Whole(v) == [v |-> v, form |-> "whole"]
Truncated(v) == [v |-> v, form |-> "truncated"]

\* DataValidator.validateJSONFileIntegrity: JSON.parse succeeds and the
\* data has the shape of a chat.
validateJSONFileIntegrity(content) == content.form = "whole"

\* A backup file `${filePath}.backup.${stamp}`: FileStorage stamps it with
\* Date.now() ("ms"), the two other classes with the ISO date ("iso"), at
\* the clock's time t.
BackupFile(kind, t, content) == [kind |-> kind, t |-> t, content |-> content]

\* a.localeCompare(b) < 0 for the names of two backups of one file: a
\* Date.now() stamp is digits that begin with 1, an ISO stamp begins with
\* the year.
NameBefore(a, b) ==
    \/ a.kind = "ms" /\ b.kind = "iso"
    \/ a.kind = b.kind /\ a.t < b.t

RECURSIVE NewestNameFirst(_)
NewestNameFirst(files) ==
    IF files = {} THEN <<>>
    ELSE LET last == CHOOSE x \in files : \A y \in files \ {x} : NameBefore(y, x)
         IN  <<last>> \o NewestNameFirst(files \ {last})

\* fs.copyFile to a backup path: a file of that name is replaced.
copyToBackup(files, kind, t, content) ==
    {b \in files : ~(b.kind = kind /\ b.t = t)} \cup {BackupFile(kind, t, content)}

BKInitState ==
    [ file         |-> Missing,
      backups      |-> {},
      recovered    |-> "none",       \* how the last integrity check recovered the file
      cacheFile    |-> FALSE,        \* the user cache file exists
      cacheBackups |-> {},
      now          |-> 1,
      lastStep     |-> "other" ]        \* "check" after an integrity check

\* FileStorage.createBackup
createBackup(s) ==
    IF s.file = Missing THEN s
    ELSE [s EXCEPT !.backups = copyToBackup(@, "ms", s.now, s.file)]

\* FileIntegrityChecker.findBackupFiles
findBackupFiles(s) == NewestNameFirst(s.backups)

\* FileIntegrityChecker.cleanupOldBackups
cleanupOldBackups(s) ==
    LET backupPaths == findBackupFiles(s)
    IN  IF Len(backupPaths) > backupRetentionCount
        THEN [s EXCEPT !.backups =
                 {backupPaths[i] : i \in 1..backupRetentionCount}]
        ELSE s

\* FileIntegrityChecker.createBackup
checkerCreateBackup(s) ==
    IF s.file = Missing THEN s
    ELSE cleanupOldBackups([s EXCEPT !.backups = copyToBackup(@, "iso", s.now, s.file)])

\* UserCacheManager.cleanupOldBackups: every backup file of the cache
\* directory, newest name first, all beyond backupRetention removed.
cacheCleanupOldBackups(s) ==
    LET backupFiles == NewestNameFirst(s.cacheBackups)
    IN  [s EXCEPT !.cacheBackups =
            {backupFiles[i] : i \in 1..(IF Len(backupFiles) < backupRetention
                                         THEN Len(backupFiles) ELSE backupRetention)}]

\* UserCacheManager.createBackup
cacheCreateBackup(s) ==
    IF ~s.cacheFile THEN s
    ELSE cacheCleanupOldBackups(
             [s EXCEPT !.cacheBackups = copyToBackup(@, "iso", s.now, Whole(1))])

\* UserCacheManager.saveCache
saveCache(s) == [cacheCreateBackup(s) EXCEPT !.cacheFile = TRUE]

\* FileIntegrityChecker.checkSingleFile: isCorrupted.  The checker is
\* constructed at startup, so that its checksumCache holds no checksum to
\* compare with.
isCorrupted(s) ==
    /\ s.file # Missing
    /\ ~validateJSONFileIntegrity(s.file)

\* FileIntegrityChecker.canAttemptContentRecovery
canAttemptContentRecovery(content) == content.form \in {"whole", "truncated"}

\* FileIntegrityChecker.checkSingleFile: canRecover
canRecover(s) ==
    isCorrupted(s) /\ (s.backups # {} \/ canAttemptContentRecovery(s.file))

\* restoreFromBackup without the validation of the backup's content.
restorable_Unvalidated(s) == findBackupFiles(s)

\* FileIntegrityChecker.restoreFromBackup: the backups that pass its
\* validation.
restorable(s) ==
    SelectSeq(findBackupFiles(s), LAMBDA b : validateJSONFileIntegrity(b.content))

\* FileIntegrityChecker.attemptContentRecovery
attemptContentRecovery(s) ==
    IF canAttemptContentRecovery(s.file)
    THEN [s EXCEPT !.file = Whole(@.v), !.recovered = "repair"]
    ELSE [s EXCEPT !.recovered = "failed"]

\* FileIntegrityChecker.attemptFileRecovery
attemptFileRecovery(s) ==
    IF restorable(s) # <<>>
    THEN [s EXCEPT !.file = restorable(s)[1].content, !.recovered = "backup"]
    ELSE attemptContentRecovery(s)

\* FileIntegrityChecker.performStartupIntegrityCheck, for the one chat file
\* of its directory
performStartupIntegrityCheck(s) ==
    LET checked == [s EXCEPT !.recovered = "none"]
    IN  IF canRecover(s) THEN attemptFileRecovery(checked) ELSE checked

BKBounded(s) ==
    /\ s.now <= MaxClock
    /\ Cardinality(s.backups) <= MaxBackupFiles

BKStep(s) == bk' = s /\ BKBounded(s) /\ UNCHANGED <<lp, ls, cm, um, eh, ep, bd, fn>>

\* FileStorage.writeJSONFile of a chat file.
ChatFileWritten ==
    \E v \in Versions :
        BKStep([bk EXCEPT !.file = Whole(v), !.lastStep = "other"])

\* The disk or a crash in the middle of a write damages the chat file.
ChatFileDamaged ==
    /\ bk.file.form = "whole"
    /\ \E content \in {Garbage, Truncated(bk.file.v)} :
           BKStep([bk EXCEPT !.file = content, !.lastStep = "other"])

\* ChatFileManager.saveChatToFile calls FileStorage.createBackup.
FileStorageCreateBackup ==
    /\ bk.file # Missing
    /\ BKStep([createBackup(bk) EXCEPT !.lastStep = "other"])

FileIntegrityCheckerCreateBackup ==
    /\ bk.file # Missing
    /\ BKStep([checkerCreateBackup(bk) EXCEPT !.lastStep = "other"])

UserCacheSaved ==
    BKStep([saveCache(bk) EXCEPT !.lastStep = "other"])

StartupIntegrityCheck ==
    /\ bk.file # Missing
    /\ BKStep([performStartupIntegrityCheck(bk) EXCEPT !.lastStep = "check"])

\* The clock moves on by a millisecond or more.
ClockTick ==
    /\ bk.now < MaxClock
    /\ BKStep([bk EXCEPT !.now = @ + 1, !.lastStep = "other"])

BKInit == bk = BKInitState

BKNext ==
    \/ ChatFileWritten
    \/ ChatFileDamaged
    \/ FileStorageCreateBackup
    \/ FileIntegrityCheckerCreateBackup
    \/ UserCacheSaved
    \/ StartupIntegrityCheck
    \/ ClockTick

-----------------------------------------------------------------------------
(* LongPollCollector: the events of one poll response and the callbacks       *)
(* (unnamed/part_004, handleLongPollResponse to executeCallbackSafely)        *)

Callbacks == 1..NumCallbacks

\* executeCallbackSafely for one callback: the callback "running", the
\* "delay" of retryWithBackoff, the callback called again ("retrying"),
\* "ok" or "failed" when executeCallbackSafely resolved or rejected.
NoCallback == [pc |-> "none", attempt |-> 0]

\* updates is the number of events of the response, event the index of the
\* one processEventSafely is awaiting, dispatched the events handed to the
\* callbacks, failures the events whose Promise.all rejected.  pc is "idle",
\* "dispatching", or how handleLongPollResponse ended.
BDInitState ==
    [ pc         |-> "idle",
      updates    |-> 0,
      event      |-> 0,
      dispatched |-> {},
      failures   |-> {},
      callbacks  |-> [c \in Callbacks |-> NoCallback] ]

\* processEventSafely(event): every callback is called through
\* executeCallbackSafely.
processEventSafely(s, e) ==
    [s EXCEPT !.event = e,
              !.dispatched = @ \cup {e},
              !.callbacks = [c \in Callbacks |-> [pc |-> "running", attempt |-> 0]]]

\* handleLongPollResponse(): the loop goes to the next event, or returns.
nextEvent(s) ==
    IF s.event < s.updates THEN processEventSafely(s, s.event + 1)
    ELSE [s EXCEPT !.pc = "returned"]

\* handleLongPollResponse(response)
batchBegin(s, n) ==
    LET s1 == [BDInitState EXCEPT !.updates = n, !.pc = "dispatching"]
    IN  IF n > 0 THEN processEventSafely(s1, 1) ELSE [s1 EXCEPT !.pc = "returned"]

\* processEventSafely() without its catch: the rejection of Promise.all
\* leaves the loop of handleLongPollResponse.
eventFailed_Rethrown(s) == [s EXCEPT !.pc = "thrown", !.failures = @ \cup {s.event}]

\* processEventSafely(): the catch logs the rejection of Promise.all and
\* returns; the calls of the other callbacks are left behind.
eventFailed(s) == nextEvent([s EXCEPT !.failures = @ \cup {s.event}])

\* Promise.all resolves when every executeCallbackSafely has resolved and
\* rejects with the first one that rejects.
settled(s) ==
    IF \E c \in Callbacks : s.callbacks[c].pc = "failed" THEN eventFailed(s)
    ELSE IF \A c \in Callbacks : s.callbacks[c].pc = "ok" THEN nextEvent(s)
         ELSE s

\* executeCallbackSafely(): the callback rejected with message m, and
\* handleError retries it or throws.
callbackRejected(s, c, m) ==
    IF shouldRetry(classifyError(m), 0)
    THEN [s EXCEPT !.callbacks[c] = [pc |-> "delay", attempt |-> 1]]
    ELSE settled([s EXCEPT !.callbacks[c].pc = "failed"])

\* retryWithBackoff(): the callback called again rejected with message m.
callbackRetryRejected(s, c, m) ==
    IF s.callbacks[c].attempt = errorMaxRetries
           \/ ~shouldRetry(classifyError(m), s.callbacks[c].attempt)
    THEN settled([s EXCEPT !.callbacks[c].pc = "failed"])
    ELSE [s EXCEPT !.callbacks[c].pc = "delay", !.callbacks[c].attempt = @ + 1]

BDStep(s) == bd' = s /\ UNCHANGED <<lp, ls, cm, um, eh, ep, bk, fn>>

\* connectToLongPollServer resolves with n events.
BatchArrives ==
    \E n \in 0..MaxBatch :
        /\ bd.pc \in {"idle", "returned", "thrown"}
        /\ BDStep(batchBegin(bd, n))

CallbackResolved ==
    \E c \in Callbacks :
        /\ bd.pc = "dispatching"
        /\ bd.callbacks[c].pc \in {"running", "retrying"}
        /\ BDStep(settled([bd EXCEPT !.callbacks[c].pc = "ok"]))

\* The callback throws or its promise rejects.
CallbackRejected ==
    \E c \in Callbacks, m \in Messages :
        /\ bd.pc = "dispatching"
        /\ bd.callbacks[c].pc = "running"
        /\ BDStep(callbackRejected(bd, c, m))

CallbackRetryDelayOver ==
    \E c \in Callbacks :
        /\ bd.pc = "dispatching"
        /\ bd.callbacks[c].pc = "delay"
        /\ BDStep([bd EXCEPT !.callbacks[c].pc = "retrying"])

CallbackRetryRejected ==
    \E c \in Callbacks, m \in Messages :
        /\ bd.pc = "dispatching"
        /\ bd.callbacks[c].pc = "retrying"
        /\ BDStep(callbackRetryRejected(bd, c, m))

BDInit == bd = BDInitState

BDNext ==
    \/ BatchArrives
    \/ CallbackResolved
    \/ CallbackRejected
    \/ CallbackRetryDelayOver
    \/ CallbackRetryRejected

-----------------------------------------------------------------------------
(* utils/flagsParser: parseMessageFlags and encodeMessageFlags *)

MESSAGE_FLAGS ==
    [ UNREAD |-> 1, OUTBOX |-> 2, REPLIED |-> 4, IMPORTANT |-> 8, CHAT |-> 16,
      FRIENDS |-> 32, SPAM |-> 64, DELETED |-> 128, FIXED |-> 256, MEDIA |-> 512 ]

\* The fields of TMessageFlags.
FlagNames ==
    {"unread", "outbox", "replied", "important", "chat", "friends", "spam",
     "delUser", "fixed", "media"}

\* value & bit and value | bit for a bit that is a power of two and a value
\* that is not negative.
BitAnd(value, bit) == IF (value \div bit) % 2 = 1 THEN bit ELSE 0
BitOr(value, bit) == IF BitAnd(value, bit) # 0 THEN value ELSE value + bit

parseMessageFlags(flagsValue) ==
    [ unread    |-> BitAnd(flagsValue, MESSAGE_FLAGS.UNREAD) # 0,
      outbox    |-> BitAnd(flagsValue, MESSAGE_FLAGS.OUTBOX) # 0,
      replied   |-> BitAnd(flagsValue, MESSAGE_FLAGS.REPLIED) # 0,
      important |-> BitAnd(flagsValue, MESSAGE_FLAGS.IMPORTANT) # 0,
      chat      |-> BitAnd(flagsValue, MESSAGE_FLAGS.CHAT) # 0,
      friends   |-> BitAnd(flagsValue, MESSAGE_FLAGS.FRIENDS) # 0,
      spam      |-> BitAnd(flagsValue, MESSAGE_FLAGS.SPAM) # 0,
      delUser   |-> BitAnd(flagsValue, MESSAGE_FLAGS.DELETED) # 0,
      fixed     |-> BitAnd(flagsValue, MESSAGE_FLAGS.FIXED) # 0,
      media     |-> BitAnd(flagsValue, MESSAGE_FLAGS.MEDIA) # 0 ]

\* `if (flags.x) flagsValue |= bit`
orIf(flag, flagsValue, bit) == IF flag THEN BitOr(flagsValue, bit) ELSE flagsValue

\* encodeMessageFlags() that leaves the media flag out.
encodeMessageFlags_WithoutMedia(flags) ==
    LET v1 == orIf(flags.unread, 0, MESSAGE_FLAGS.UNREAD)
        v2 == orIf(flags.outbox, v1, MESSAGE_FLAGS.OUTBOX)
        v3 == orIf(flags.replied, v2, MESSAGE_FLAGS.REPLIED)
        v4 == orIf(flags.important, v3, MESSAGE_FLAGS.IMPORTANT)
        v5 == orIf(flags.chat, v4, MESSAGE_FLAGS.CHAT)
        v6 == orIf(flags.friends, v5, MESSAGE_FLAGS.FRIENDS)
        v7 == orIf(flags.spam, v6, MESSAGE_FLAGS.SPAM)
        v8 == orIf(flags.delUser, v7, MESSAGE_FLAGS.DELETED)
    IN  orIf(flags.fixed, v8, MESSAGE_FLAGS.FIXED)

encodeMessageFlags(flags) ==
    LET v1 == orIf(flags.unread, 0, MESSAGE_FLAGS.UNREAD)
        v2 == orIf(flags.outbox, v1, MESSAGE_FLAGS.OUTBOX)
        v3 == orIf(flags.replied, v2, MESSAGE_FLAGS.REPLIED)
        v4 == orIf(flags.important, v3, MESSAGE_FLAGS.IMPORTANT)
        v5 == orIf(flags.chat, v4, MESSAGE_FLAGS.CHAT)
        v6 == orIf(flags.friends, v5, MESSAGE_FLAGS.FRIENDS)
        v7 == orIf(flags.spam, v6, MESSAGE_FLAGS.SPAM)
        v8 == orIf(flags.delUser, v7, MESSAGE_FLAGS.DELETED)
        v9 == orIf(flags.fixed, v8, MESSAGE_FLAGS.FIXED)
    IN  orIf(flags.media, v9, MESSAGE_FLAGS.MEDIA)

FNStep(s) == fn' = s /\ UNCHANGED <<lp, ls, cm, um, eh, ep, bk, bd>>

\* A TMessageFlags value is encoded, and the number is parsed.
FlagsInit ==
    fn \in { [pc |-> "flags", flags |-> f, encoded |-> 0, decoded |-> f] :
                 f \in [FlagNames -> BOOLEAN] }

EncodeMessageFlags ==
    /\ fn.pc = "flags"
    /\ FNStep([fn EXCEPT !.pc = "encoded", !.encoded = encodeMessageFlags(fn.flags),
                         !.decoded = parseMessageFlags(0)])

ParseMessageFlags ==
    /\ fn.pc = "encoded"
    /\ FNStep([fn EXCEPT !.pc = "decoded", !.decoded = parseMessageFlags(fn.encoded)])

FlagsNext ==
    \/ EncodeMessageFlags
    \/ ParseMessageFlags

-----------------------------------------------------------------------------
(* MessageParser.parseMessageEvent, DataValidator.validateParsedMessage and
   EventProcessor.handleNewMessage *)

\* A number of JavaScript: an integer or NaN.
Num(v) == [isNaN |-> FALSE, value |-> v]
NaN == [isNaN |-> TRUE, value |-> 0]
\* `!x` for a number x.
falsy(x) == x.isNaN \/ x.value = 0

Digits == [c \in {"0", "1", "2", "3", "4", "5", "6", "7", "8", "9"} |->
              CASE c = "0" -> 0 [] c = "1" -> 1 [] c = "2" -> 2 [] c = "3" -> 3
                [] c = "4" -> 4 [] c = "5" -> 5 [] c = "6" -> 6 [] c = "7" -> 7
                [] c = "8" -> 8 [] c = "9" -> 9]

RECURSIVE leadingDigits(_, _)
leadingDigits(chars, acc) ==
    IF chars = <<>> \/ Head(chars) \notin DOMAIN Digits
    THEN acc
    ELSE leadingDigits(Tail(chars), 10 * acc + Digits[Head(chars)])

\* parseInt(string, 10) for a string of characters without white space or
\* sign: the number of the digits before the first other character, NaN
\* when there is none.
parseInt(chars) ==
    IF chars = <<>> \/ Head(chars) \notin DOMAIN Digits
    THEN NaN
    ELSE Num(leadingDigits(chars, 0))

\* The `from` of the extra fields of an event: absent, a string or a number.
NoFrom == [type |-> "undefined", chars |-> <<>>]
FromString(chars) == [type |-> "string", chars |-> chars]
FromNumber == [type |-> "number", chars |-> <<>>]
FromValues ==
    {NoFrom, FromNumber, FromString(<<>>), FromString(<<"7">>),
     FromString(<<"1", "2">>), FromString(<<"x">>)}

\* Peers: a user, a community, and a group conversation.
PeerIds == {5, -3, 2000000001}
isGroupPeer(peerId) == peerId >= 2000000000

\* Events of type 4 with six elements or more, a timestamp and a text; the
\* server sends `from` in group conversations only.
Events ==
    { [messageId |-> m, flags |-> f, peerId |-> p, from |-> x] :
          m \in {0, 1}, f \in {0, 1, 2, 3}, p \in PeerIds, x \in FromValues }
    \ { e \in [messageId : {0, 1}, flags : {0, 1, 2, 3}, peerId : PeerIds, from : FromValues] :
          ~isGroupPeer(e.peerId) /\ e.from # NoFrom }

NoMessage == [messageId |-> 0, peerId |-> 0, fromId |-> Num(0), flags |-> parseMessageFlags(0)]

\* `extraInfo.from && typeof extraInfo.from === 'string'`
fromIsUsable(from) == from.type = "string" /\ from.chars # <<>>

parseThrows(event) == event.messageId <= 0

\* The fromId of parseMessageEvent().
authorOf(event, messageFlags) ==
    IF fromIsUsable(event.from)
    THEN parseInt(event.from.chars)
    ELSE IF messageFlags.outbox
         THEN Num(0)
         ELSE IF event.peerId < 2000000000 THEN Num(event.peerId) ELSE Num(0)

\* The value parseMessageEvent() returns for an event it does not throw on.
parseMessageEvent(event) ==
    LET messageFlags == parseMessageFlags(event.flags)
    IN  [ messageId |-> event.messageId,
          peerId    |-> event.peerId,
          fromId    |-> authorOf(event, messageFlags),
          flags     |-> messageFlags ]

\* isValid of validateParsedMessage(), for a message with a timestamp, a
\* text and an array of attachments.
validateParsedMessage(message) ==
    /\ ~falsy(Num(message.messageId))
    /\ ~falsy(Num(message.peerId))
    /\ ~falsy(message.fromId)

handleNewMessage(s) ==
    IF ~s.enableMessageLogging
    THEN [s EXCEPT !.pc = "returned"]
    ELSE IF parseThrows(s.event)
         THEN [s EXCEPT !.pc = "thrown"]
         ELSE LET parsedMessage == parseMessageEvent(s.event)
              IN  IF s.enableDataValidation /\ ~validateParsedMessage(parsedMessage)
                  THEN [s EXCEPT !.pc = "returned", !.message = parsedMessage]
                  ELSE [s EXCEPT !.pc = "returned", !.message = parsedMessage,
                                 !.saveMessage = TRUE]

ParserInit ==
    fn \in { [pc |-> "event", event |-> e, message |-> NoMessage, saveMessage |-> FALSE,
              enableMessageLogging |-> l, enableDataValidation |-> v] :
                 e \in Events, l \in BOOLEAN, v \in BOOLEAN }

\* parseMessageEvent(event) called on its own.
ParseMessageEventCalled ==
    /\ fn.pc = "event"
    /\ FNStep(IF parseThrows(fn.event)
              THEN [fn EXCEPT !.pc = "thrown"]
              ELSE [fn EXCEPT !.pc = "parsed", !.message = parseMessageEvent(fn.event)])

\* handleNewMessage(event), up to its call of saveMessage.
HandleNewMessageCalled ==
    /\ fn.pc = "event"
    /\ FNStep(handleNewMessage(fn))

ParserNext ==
    \/ ParseMessageEventCalled
    \/ HandleNewMessageCalled

-----------------------------------------------------------------------------
(* utils/flagsParser.calculateBackoffDelay and its two callers *)

MaxAttempt == 4

\* Delays in units of time; every base delay is a multiple of 2, so that the
\* delay of attempt -1 with the multiplier 2 is a whole number.
BaseDelays == {2, 6}
MaxDelays == {6, 20}
Multipliers == {2, 3}

RECURSIVE pow(_, _)
\* Math.pow(multiplier, attempt) for attempt >= 0
pow(multiplier, attempt) ==
    IF attempt = 0 THEN 1 ELSE multiplier * pow(multiplier, attempt - 1)

\* Math.min(a, b)
min(a, b) == IF a <= b THEN a ELSE b

\* calculateBackoffDelay() without Math.min.
calculateBackoffDelay_Uncapped(attempt, baseDelay, maxDelay, multiplier) ==
    IF attempt >= 0
    THEN baseDelay * pow(multiplier, attempt)
    ELSE baseDelay \div pow(multiplier, 0 - attempt)

calculateBackoffDelay(attempt, baseDelay, maxDelay, multiplier) ==
    LET delay == IF attempt >= 0
                 THEN baseDelay * pow(multiplier, attempt)
                 ELSE baseDelay \div pow(multiplier, 0 - attempt)
    IN  min(delay, maxDelay)

\* The delay of the timer that scheduleReconnection() sets: the multiplier
\* is left to its default, 2.
reconnectionDelay(s, reconnectAttempts) ==
    [s EXCEPT !.pc = "scheduleReconnection", !.attempt = reconnectAttempts - 1,
              !.maxDelay = s.maxReconnectDelay,
              !.delay = calculateBackoffDelay(reconnectAttempts - 1, s.baseReconnectDelay,
                                              s.maxReconnectDelay, 2)]

\* The delay retryWithBackoff() waits before its attempt.
retryDelay(s, attempt) ==
    [s EXCEPT !.pc = "retryWithBackoff", !.attempt = attempt - 1,
              !.maxDelay = s.errorMaxDelay,
              !.delay = calculateBackoffDelay(attempt - 1, s.errorBaseDelay, s.errorMaxDelay,
                                              s.backoffMultiplier)]

\* The configurations of the collector and of the error handler.
BackoffInit ==
    fn \in { [pc |-> "configured", attempt |-> 0, delay |-> 0, maxDelay |-> m,
              baseReconnectDelay |-> b, maxReconnectDelay |-> m,
              errorBaseDelay |-> eb, errorMaxDelay |-> em, backoffMultiplier |-> x] :
                 b \in BaseDelays, m \in MaxDelays, eb \in BaseDelays, em \in MaxDelays,
                 x \in Multipliers }

\* scheduleReconnection(), after handleConnectionError() has counted the
\* attempt or from reconnect() with the count as it is.
ScheduleReconnectionCalled ==
    \E reconnectAttempts \in 0..MaxAttempt :
        FNStep(reconnectionDelay(fn, reconnectAttempts))

\* One turn of the loop of retryWithBackoff().
RetryDelayComputed ==
    \E attempt \in 1..MaxAttempt :
        FNStep(retryDelay(fn, attempt))

BackoffNext ==
    \/ ScheduleReconnectionCalled
    \/ RetryDelayComputed

-----------------------------------------------------------------------------
(* Specifications *)

\* Each specification is of one component; a component that takes no step in
\* it is not constructed.
Absent == "absent"

InitLP ==
    LPInit /\ ls = Absent /\ cm = Absent /\ um = Absent /\ eh = Absent /\ ep = Absent /\ bk = Absent
        /\ bd = Absent /\ fn = Absent

InitSession ==
    LSInit /\ lp = Absent /\ cm = Absent /\ um = Absent /\ eh = Absent /\ ep = Absent /\ bk = Absent
        /\ bd = Absent /\ fn = Absent

InitChat ==
    CMInit /\ lp = Absent /\ ls = Absent /\ um = Absent /\ eh = Absent /\ ep = Absent /\ bk = Absent
        /\ bd = Absent /\ fn = Absent

InitUser ==
    UMInit /\ lp = Absent /\ ls = Absent /\ cm = Absent /\ eh = Absent /\ ep = Absent /\ bk = Absent
        /\ bd = Absent /\ fn = Absent

InitError ==
    EHInit /\ lp = Absent /\ ls = Absent /\ cm = Absent /\ um = Absent /\ ep = Absent /\ bk = Absent
        /\ bd = Absent /\ fn = Absent

InitEvent ==
    EPInit /\ EHInit /\ lp = Absent /\ ls = Absent /\ cm = Absent /\ um = Absent /\ bk = Absent
        /\ bd = Absent /\ fn = Absent

InitBackup ==
    BKInit /\ lp = Absent /\ ls = Absent /\ cm = Absent /\ um = Absent /\ eh = Absent /\ ep = Absent
        /\ bd = Absent /\ fn = Absent

InitBatch ==
    BDInit /\ lp = Absent /\ ls = Absent /\ cm = Absent /\ um = Absent /\ eh = Absent /\ ep = Absent
        /\ bk = Absent /\ fn = Absent

InitFlags ==
    FlagsInit /\ lp = Absent /\ ls = Absent /\ cm = Absent /\ um = Absent /\ eh = Absent /\ ep = Absent
        /\ bk = Absent /\ bd = Absent

InitParser ==
    ParserInit /\ lp = Absent /\ ls = Absent /\ cm = Absent /\ um = Absent /\ eh = Absent /\ ep = Absent
        /\ bk = Absent /\ bd = Absent

InitBackoff ==
    BackoffInit /\ lp = Absent /\ ls = Absent /\ cm = Absent /\ um = Absent /\ eh = Absent /\ ep = Absent
        /\ bk = Absent /\ bd = Absent

\* The LongPollCollector alone.
SpecLP == InitLP /\ [][LPNext]_vars

\* The LongPollCollector with its session data, started by its owner and
\* left to run.
SpecSession == InitSession /\ [][LSNext]_vars

\* The ChatFileManager with overlapping saveMessage calls.
SpecChat == InitChat /\ [][CMNext]_vars

\* The ChatFileManager with one saveMessage call at a time.
SpecChatSeq == InitChat /\ [][CMSeqNext]_vars

\* The UserManager with overlapping getUserInfo and batchGetUsers calls.
SpecUser == InitUser /\ [][UMNext]_vars

\* The ErrorHandler with its callers and its flush timer.
SpecError == InitError /\ [][EHNext]_vars

\* The buffer of the ErrorHandler with its clock, its flush timer and
\* destroy(); handleError leaves the buffer alone in every call that retries.
SpecBuffer == InitError /\ [][EHBufferNext]_vars

\* The buffer with an interval timer that fires while it is set and
\* buffered operations that settle.
SpecBufferLive ==
    /\ InitError
    /\ [][EHFlushNext]_vars
    /\ WF_vars(FlushTimerFires)
    /\ WF_vars(BufferedOperationSucceeded \/ BufferedOperationFailed)

\* The EventProcessor dispatching events one after the other, with the
\* ErrorHandler it hands its errors to.
SpecEvent == InitEvent /\ [][EPNext]_vars

\* A chat file, the user cache file and their backups: writes, damage,
\* backups by the three classes that make them and the integrity check.
SpecBackup == InitBackup /\ [][BKNext]_vars

\* The events of one poll response after the other going through the
\* callbacks of the LongPollCollector.
SpecBatch == InitBatch /\ [][BDNext]_vars

\* encodeMessageFlags and parseMessageFlags applied to every TMessageFlags
\* value.
SpecFlags == InitFlags /\ [][FlagsNext]_vars

\* parseMessageEvent and handleNewMessage applied to the events of a new
\* message.
SpecParser == InitParser /\ [][ParserNext]_vars

\* The delays of the reconnection timer and of the retries, for every
\* attempt and configuration.
SpecBackoff == InitBackoff /\ [][BackoffNext]_vars

-----------------------------------------------------------------------------
(* Claims about the LongPollCollector, checked under SpecLP or SpecSession *)

\* C1: at most one long-poll request is outstanding at any time.
C1_OnePollOutstanding == lp.pollsInFlight <= 1

\* C2: after a poll failure followed by maxReconnectAttempts (3) consecutive
\* failures of the collector's own reconnects, the collector is stopped and
\* no further reconnect is pending or in progress.
C2_StopsAfterMaxFailures ==
    (lp.pollFailed /\ lp.failedReconnects >= maxReconnectAttempts)
        => /\ ~lp.isRunning
           /\ lp.reconnectTimer # "pending"
           /\ lp.acquiring["background"] = 0

\* C3: the collector never makes more than maxReconnectAttempts consecutive
\* failed reconnect attempts of its own: it does not retry forever.
C3_BoundedReconnects == lp.failedReconnects <= maxReconnectAttempts

\* C4: when the reconnect budget is exhausted and the collector stops, an
\* error has reached a promise the owner holds.
C4_FatalReported == lp.fatalStopped => lp.ownerNotified

\* C5: once stop() has returned (and until the next start()), no step hands
\* an event to the event callback and no step issues a poll request.
C5_QuietAfterStop == lp.stopReturned => lp.lastStep \notin {"deliver", "poll"}

\* C15: at most one reconnect attempt is in progress at any time: of the
\* session acquisitions begun by reconnect() (from the health check, the
\* reconnection timer or the owner) at most one is awaiting its answer.
C15_OneReconnectAtATime ==
    lp.acquiring["background"] + lp.acquiring["owner"] <= 1

\* C16: the ts of serverConfig, which the next poll request is made with,
\* never becomes smaller.
C16_CursorNeverDecreases == [][ls'.ts >= ls.ts]_vars

\* C17: when a session was acquired with a pts other than the lastPts known
\* before it, connectToServer asked for the missed events.
C17_RecoveryOnPtsChange == ls.ptsChanged => ls.recovered

\* C19: a poll request is never made on a session a poll of which was
\* answered with `failed`: a session is acquired in between.
C19_FailedSessionNotPolledAgain ==
    ls.lastStep = "poll" => ls.key \notin ls.failedKeys

\* C19: a poll request has just been made, on another session, after a poll
\* was answered with `failed`.
C19_Witness ==
    /\ ls.lastStep = "poll"
    /\ ls.failedKeys # {}
    /\ ls.key \notin ls.failedKeys

\* C18: while the collector is running, a health check made when no event
\* has arrived for more than three health-check intervals leaves a reconnect
\* in progress (it begins one, or one was in progress already).
C18_StaleHealthCheckReconnects ==
    (lp.lastStep = "healthcheck" /\ lp.isRunning) => AcquiringTotal(lp) > 0

-----------------------------------------------------------------------------
(* Claims about the ChatFileManager *)

Quiescent == \A t \in Slots : ~Active(t)

\* What getChatData(c) would return: the messages of the cached chat, else of
\* the chat file.
ChatMessages(c) ==
    IF cacheGet(cm, c) # 0 THEN cm.heap[cacheGet(cm, c)].messages
    ELSE cm.disk[c].messages

Sorted(msgs) ==
    \A i, j \in 1..Len(msgs) : i < j => getTime(msgs[i].date) <= getTime(msgs[j].date)

WithId(msgs, id) == {i \in 1..Len(msgs) : msgs[i].id = id}

\* C6 (SpecChat): no two saveMessage calls for the same chat are between
\* their load and their write at the same time.
C6_SerializedPerChat ==
    \A t1, t2 \in Slots :
        (t1 # t2 /\ Active(t1) /\ Active(t2))
            => cm.slots[t1].chatId # cm.slots[t2].chatId

\* C7 (SpecChatSeq): after any sequence of saveMessage calls the messages of
\* every chat, in memory and in its file, are in ascending order of timestamp.
C7_SortedByTimestamp ==
    Quiescent => \A c \in ChatIds : Sorted(ChatMessages(c)) /\ Sorted(cm.disk[c].messages)

\* C8 (SpecChatSeq): when saveMessage has returned for a message id it had
\* already returned for, the chat holds exactly one message with that id, and
\* its content is the text of the second call, in memory and in the file.
C8_SecondCallReplaces ==
    (Quiescent /\ cm.lastDone.valid /\ cm.lastDone.earlier # {})
        => LET c == cm.lastDone.chatId
               m == cm.lastDone.msg
           IN  /\ Cardinality(WithId(ChatMessages(c), m.id)) = 1
               /\ \A i \in WithId(ChatMessages(c), m.id) :
                      ChatMessages(c)[i].content = m.content
               /\ Cardinality(WithId(cm.disk[c].messages, m.id)) = 1
               /\ \A i \in WithId(cm.disk[c].messages, m.id) :
                      cm.disk[c].messages[i].content = m.content

\* C8 witness: a second call has returned whose text differs from the text of
\* the first call for the same chat and message id.
C8_Witness ==
    /\ Quiescent
    /\ cm.lastDone.valid
    /\ \E x \in cm.lastDone.earlier : x # cm.lastDone.msg.content

\* C21: when every saveMessage call made has returned without an error, the
\* file of a chat held in memory exists and holds the messages of the chat
\* in memory.
C21_DiskEqualsMemory ==
    (Quiescent /\ ~cm.threw) =>
        \A c \in ChatIds :
            cacheGet(cm, c) # 0 =>
                /\ cm.disk[c].exists
                /\ cm.disk[c].messages = cm.heap[cacheGet(cm, c)].messages

\* C20: with backups enabled and one saveMessage call at a time, a write
\* that succeeds (the call returns) and replaces a chat file is made by a
\* call for which createBackup had copied the file replaced.
C20_BackupBeforeReplace ==
    [][\A t \in Slots :
          (/\ cm.slots[t].pc = "writing"
           /\ cm'.slots[t].pc = "idle"
           /\ cm'.lastDone.valid
           /\ cm.disk[cm.slots[t].chatId].exists)
          => /\ cm.slots[t].backup.made
             /\ cm.slots[t].backup.messages = cm.disk[cm.slots[t].chatId].messages]_vars

-----------------------------------------------------------------------------
(* Claims about the UserManager, checked under SpecUser *)

\* The getUserInfo calls for user u that have not returned.
Resolving(u) ==
    {c \in Callers : um.callers[c].pc \in {"fetching", "awaiting"} /\ um.callers[c].userId = u}

\* The user ids of the vkApi.getUsers request caller c has in flight.
LookupIds(c) ==
    IF um.callers[c].pc = "fetching" THEN {um.callers[c].userId}
    ELSE IF um.callers[c].pc = "batchFetching"
         THEN {um.callers[c].chunk[i] : i \in 1..Len(um.callers[c].chunk)}
         ELSE {}

\* C9: getUserInfo calls that overlap for the same uncached user id wait for
\* one and the same request, sent by exactly one of them, and the calls that
\* waited for one request returned the same user.
C9_ConcurrentResolveCoalesced ==
    /\ \A u \in UserIds :
           Resolving(u) # {} =>
               /\ Cardinality({c \in Resolving(u) : um.callers[c].pc = "fetching"}) = 1
               /\ \A a, b \in Resolving(u) : um.callers[a].lookup = um.callers[b].lookup
    /\ \A a, b \in Callers :
           (um.callers[a].result.lookup # 0
               /\ um.callers[a].result.lookup = um.callers[b].result.lookup)
               => um.callers[a].result.val = um.callers[b].result.val

\* C9 witness: two getUserInfo calls for the same user returned the result of
\* the same request.
C9_Witness ==
    \E a, b \in Callers :
        /\ a # b
        /\ um.callers[a].pc = "idle" /\ um.callers[b].pc = "idle"
        /\ um.callers[a].userId # 0
        /\ um.callers[a].userId = um.callers[b].userId
        /\ um.callers[a].result.lookup # 0
        /\ um.callers[a].result = um.callers[b].result

\* C10: no two vkApi.getUsers requests in flight ask for the same user id.
C10_NoDuplicateLookup ==
    \A a, b \in Callers : a # b => LookupIds(a) \cap LookupIds(b) = {}

-----------------------------------------------------------------------------
(* Claims about the ErrorHandler, checked under SpecError or SpecBuffer *)

\* C11: the buffer never holds more operations than config.bufferSize,
\* whatever bufferOperation, handleError and processBuffer calls were made.
C11_BufferWithinCapacity == Len(eh.buffer) <= bufferSize

\* C11 witness: bufferOperation() found the buffer full, and the buffer is
\* full.
C11_Witness == eh.bufferOverflows /\ Len(eh.buffer) = bufferSize

\* C12: a handleError call for a network, timeout or rate limit error that
\* ended because its retries were exhausted has put its operation into the
\* buffer.
C12_ExhaustedRetriesBuffered ==
    (eh.call.outcome = "exhausted" /\ eh.call.type \in {"network", "timeout", "rate_limit"})
        => eh.call.buffered

\* C24: a handleError call for a validation error never invokes the
\* operation and ends with the error thrown.
C24_ValidationNeverRetried ==
    eh.call.type = "validation" =>
        /\ eh.call.calls = 0
        /\ eh.call.pc = "done" /\ eh.call.outcome = "thrown"

\* A handleError call for a validation error has ended: the operation was
\* neither invoked nor buffered.
C24_Witness ==
    /\ eh.call.type = "validation" /\ eh.call.pc = "done"
    /\ eh.call.outcome = "thrown" /\ ~eh.call.buffered
    /\ eh.call.calls = 0 /\ eh.call.limit = errorMaxRetries

\* C25: a handleError call for an error of any type but validation that has
\* ended has invoked its operation at least once.
C25_OthersRetried ==
    (eh.call.pc = "done" /\ eh.call.type # "validation") => eh.call.calls >= 1

\* C26: a handleError call whose operation failed in every attempt, never
\* with a validation error, has invoked the operation retriesLimit times.
C26_ExactlyMaxRetries ==
    (/\ eh.call.pc = "done"
     /\ eh.call.outcome \in {"exhausted", "stopped"}
     /\ eh.call.stoppedBy # "validation")
        => eh.call.calls = eh.call.limit

\* C27: the flush that begins replays every operation of the buffer, an
\* operation of a higher priority before one of a lower priority and, of
\* two operations of one priority, the one buffered earlier first.
C27_FlushOrder ==
    [][(~eh.isProcessingBuffer /\ eh'.isProcessingBuffer) =>
          /\ Len(eh'.operations) = Len(eh.buffer)
          /\ \A i, j \in 1..Len(eh'.operations) :
                 i < j =>
                   \E a, b \in 1..Len(eh.buffer) :
                       /\ eh.buffer[a].id = eh'.operations[i]
                       /\ eh.buffer[b].id = eh'.operations[j]
                       /\ \/ priorityOrder(eh.buffer[a].priority)
                                > priorityOrder(eh.buffer[b].priority)
                          \/ /\ eh.buffer[a].priority = eh.buffer[b].priority
                             /\ a < b]_vars

\* A flush has begun with an operation of high priority that was buffered
\* after one of low priority, in the same millisecond, and is replayed
\* before it.
C27_Witness ==
    /\ eh.isProcessingBuffer
    /\ Len(eh.buffer) = 2 /\ Len(eh.operations) = 2
    /\ eh.buffer[1].priority = "low" /\ eh.buffer[2].priority = "high"
    /\ eh.buffer[1].timestamp = eh.buffer[2].timestamp
    /\ eh.operations = <<eh.buffer[2].id, eh.buffer[1].id>>

\* C28: the operations that handleBufferOverflow() removes are of low
\* priority, and older than every operation of low priority it leaves.
C28_EvictsOldestLow ==
    [][eh'.evicted # <<>> =>
          \A i \in 1..Len(eh.buffer) :
              ~InBuffer(eh', eh.buffer[i].id) =>
                  /\ eh.buffer[i].priority = "low"
                  /\ \A j \in 1..Len(eh.buffer) :
                         (InBuffer(eh', eh.buffer[j].id) /\ eh.buffer[j].priority = "low")
                             => i < j]_vars

\* An operation of low priority has just been evicted, and an older
\* operation of another priority is still in the buffer.
C28_Witness ==
    /\ eh.evicted # <<>>
    /\ \E i \in 1..Len(eh.buffer) :
           eh.buffer[i].priority # "low" /\ eh.buffer[i].id < eh.evicted[1]

C30_DestroyAttemptsAll ==
    [][(eh.bufferFlushTimer /\ ~eh'.bufferFlushTimer) =>
          \A i \in 1..Len(eh.buffer) :
              \E k \in 1..Len(eh'.operations) :
                  eh'.operations[k] = eh.buffer[i].id]_vars

-----------------------------------------------------------------------------
(* Claims about the EventProcessor, checked under SpecEvent *)

\* C13: while processEvent awaits its handlers, no handler call that never
\* settles is awaited without a timeout running, so processEvent returns
\* within bounded time.
C13_DispatchNotStalled ==
    \A h \in Handlers :
        ~(ep.pc = "handlers" /\ ep.handlers[h].pc = "retrying" /\ ep.handlers[h].hangs)

\* C14: when the timeout won the race against a handler, handleError got the
\* failure of that handler, every other handler of the event has been called,
\* and a handler that completed did so as its own call settled.
C14_TimeoutFailsOneHandler ==
    \A h \in Handlers :
        ep.handlers[h].timedOut =>
            /\ ep.handlers[h].handed
            /\ \A g \in Handlers \ {h} :
                   /\ ep.handlers[g].pc # "none"
                   /\ ep.handlers[g].pc = "ok" => ep.handlers[g].settled = "resolved"
                   /\ ep.handlers[g].pc = "failed" => ep.handlers[g].settled = "rejected"

\* C14 witness: one handler timed out and is with the ErrorHandler, another
\* handler of the same event resolved in time.
C14_Witness ==
    \E h, g \in Handlers :
        /\ h # g
        /\ ep.handlers[h].timedOut /\ ep.handlers[h].handed
        /\ ep.handlers[g].pc = "ok" /\ ~ep.handlers[g].timedOut

-----------------------------------------------------------------------------
(* Claims about the backup files, checked under SpecBackup *)

\* C22: the backup files kept for a file never number more than the
\* configured retention count.
C22_BackupsWithinRetention ==
    /\ Cardinality(bk.backups) <= backupRetentionCount
    /\ Cardinality(bk.cacheBackups) <= backupRetention

-----------------------------------------------------------------------------
(* Claims about the events of a poll response, checked under SpecBatch *)

\* C31: handleLongPollResponse ends only after every event of the response
\* was handed to the callbacks, whatever failed on the way, and it never
\* ends with the failure of an event.
C31_BatchNeverAborted ==
    /\ bd.pc # "thrown"
    /\ bd.pc = "returned" => bd.dispatched = 1..bd.updates

\* The first event of a response failed, after its retries or at once, and
\* the second event has been handed to the callbacks.
C31_Witness ==
    /\ bd.updates = 2
    /\ 1 \in bd.failures
    /\ 2 \in bd.dispatched

-----------------------------------------------------------------------------
(* Claims about the parser and the functions of utils *)

\* C33: parseMessageFlags(encodeMessageFlags(f)) is f, for every value f of
\* the ten flags.
C33_FlagsRoundTrip == fn.pc = "decoded" => fn.decoded = fn.flags

\* A value with some flags set and some not has gone through both
\* functions.
C33_Witness ==
    /\ fn.pc = "decoded"
    /\ fn.flags.media /\ fn.flags.unread /\ ~fn.flags.outbox
    /\ fn.encoded = MESSAGE_FLAGS.MEDIA + MESSAGE_FLAGS.UNREAD

\* C32: the author of a parsed message is the unresolved id 0 when the
\* outbox flag is set; otherwise, in a group conversation, the number of
\* `from`; otherwise the peer id.
C32_AuthorResolution ==
    fn.pc = "parsed" =>
        /\ fn.message.flags.outbox => fn.message.fromId = Num(0)
        /\ (~fn.message.flags.outbox /\ isGroupPeer(fn.event.peerId)
               /\ fromIsUsable(fn.event.from))
             => fn.message.fromId = parseInt(fn.event.from.chars)
        /\ (~fn.message.flags.outbox /\ ~isGroupPeer(fn.event.peerId))
             => fn.message.fromId = Num(fn.event.peerId)

\* C38: with message logging and data validation on, an event that is
\* parsed with the unresolved author id 0 is given to saveMessage.
C38_UnresolvedAuthorPersisted ==
    ( /\ fn.pc = "returned"
      /\ fn.enableMessageLogging /\ fn.enableDataValidation
      /\ fn.message # NoMessage
      /\ fn.message.fromId = Num(0) )
    => fn.saveMessage

\* C34: the backoff delay of every attempt is at most the maximum delay of
\* the configuration, for the reconnection timer and for the retries.
C34_DelayCapped == fn.pc \in {"scheduleReconnection", "retryWithBackoff"} => fn.delay <= fn.maxDelay

\* A reconnection whose uncapped delay is over the maximum delay: it waits
\* the maximum delay.
C34_Witness ==
    /\ fn.pc = "scheduleReconnection"
    /\ fn.baseReconnectDelay * pow(2, fn.attempt + 1) > 2 * fn.maxReconnectDelay
    /\ fn.delay = fn.maxReconnectDelay

-----------------------------------------------------------------------------
(* A further claim about the LongPollCollector *)

\* C40: while the collector is not running, before start() and after stop(),
\* connectionState.connected is false.
C40_NotRunningNotConnected == ~lp.isRunning => ~lp.connected

-----------------------------------------------------------------------------
(* Further claims about the ChatFileManager *)

\* C35: when saveMessage calls for one chat that overlapped have all
\* returned without throwing, the chat on disk and the chat in the cache
\* hold the message of each of them.
C35_NoLostUpdate ==
    ((\A t \in Slots : ~Active(t)) /\ ~cm.threw) =>
        \A k \in cm.doneKeys :
            /\ findIndex(cm.disk[k[1]].messages, k[2]) # 0
            /\ cacheGet(cm, k[1]) # 0
                  => findIndex(cm.heap[cacheGet(cm, k[1])].messages, k[2]) # 0

\* C39: the cache never holds more than maxMemoryCacheSize chats, whatever
\* saveMessage calls were made.
C39_CacheWithinLimit == Len(cm.chatCache) <= maxMemoryCacheSize

-----------------------------------------------------------------------------
(* Further claims about the ErrorHandler *)

\* C36: when bufferOperation() finds the buffer full and the eviction frees
\* room, the new operation is in the buffer when the call ends.
C36_BufferedAfterEviction ==
    [][eh'.evicted # <<>> =>
          /\ eh'.nextId = eh.nextId + 1
          /\ InBuffer(eh', eh'.nextId)]_vars

-----------------------------------------------------------------------------
(* Further claims about the EventProcessor *)

\* C37: a handler that has succeeded for an event is not called again for
\* that event, whatever becomes of the other handlers.
C37_SuccessfulHandlerRunsOnce == ep.reinvoked = {}

=============================================================================
